---- MODULE Spec2Model ----
(***************************************************************************)
(* Model of the writing_assistant ingestion pipeline                       *)
(* (src/src/text_ingestion.py, src/src/neo4j_connector.py).                *)
(*                                                                         *)
(* Representation of Python values:                                        *)
(*  - a str is a sequence of pieces.  Strings that the code inspects       *)
(*    character by character (texts, categories, values, names, titles,    *)
(*    relationship types) have one character per piece; the fixed parts    *)
(*    of f-strings and opaque attribute values are kept as one piece.      *)
(*  - a dict is a function whose DOMAIN is the set of its keys.            *)
(*  - a list is a sequence.                                                *)
(* Representation of the graph store: a node is a record with a store id,  *)
(* a label and a property map; an edge is a record src/dst/type/props and  *)
(* the edges form a bag, so that duplicates are visible.                   *)
(***************************************************************************)
EXTENDS Integers, Sequences, FiniteSets, Bags, TLC

VARIABLES
  nodes,                \* graph store: set of node records
  edges,                \* graph store: bag of edge records
  testing_mode,         \* TextIngestionPipeline.testing_mode
  track_sources,        \* TextIngestionPipeline.track_sources
  current_source_file,  \* TextIngestionPipeline.current_source_file
  fs,                   \* file system: the directories and the files with their content
  call,                 \* the operation last invoked, with its arguments
  ret                   \* its outcome: raised or returned, and the value

vars == <<nodes, edges, testing_mode, track_sources, current_source_file, fs, call, ret>>

(***************************************************************************)
(* Bounds                                                                  *)
(***************************************************************************)
MaxSegs == 4      \* segments per text in the tag-parser specification
MaxTokens == 5    \* tokens per oracle response in the extraction specification
MaxNodes == 3     \* nodes in the graph store
MaxInline == 2    \* inline markers per text in the merge specification
MaxLines == 4     \* lines per file in the classification specification

(***************************************************************************)
(* Characters and strings                                                  *)
(***************************************************************************)
Lowers == <<"a","b","c","d","e","f","g","h","i","j","k","l","m",
            "n","o","p","q","r","s","t","u","v","w","x","y","z">>
Uppers == <<"A","B","C","D","E","F","G","H","I","J","K","L","M",
            "N","O","P","Q","R","S","T","U","V","W","X","Y","Z">>
Digits == {"0","1","2","3","4","5","6","7","8","9"}

Range(s) == {s[i] : i \in DOMAIN s}
LowerLetters == Range(Lowers)
UpperLetters == Range(Uppers)
IsLower(c) == c \in LowerLetters
IsUpper(c) == c \in UpperLetters
IsLetter(c) == IsLower(c) \/ IsUpper(c)
IsWordChar(c) == IsLetter(c) \/ c \in Digits \/ c = "_"
IsValueChar(c) == IsLetter(c) \/ c = "_"

IndexIn(c, s) == CHOOSE i \in DOMAIN s : s[i] = c
ToLower == [c \in UpperLetters |-> Lowers[IndexIn(c, Uppers)]]
ToUpper == [c \in LowerLetters |-> Uppers[IndexIn(c, Lowers)]]
LowerChar(c) == IF IsUpper(c) THEN ToLower[c] ELSE c
UpperChar(c) == IF IsLower(c) THEN ToUpper[c] ELSE c

\* str.lower()
Lower(s) == [i \in DOMAIN s |-> LowerChar(s[i])]

\* str.title(): a letter that follows a non-letter is upper-cased, a letter
\* that follows a letter is lower-cased
Title(s) == [i \in DOMAIN s |->
               IF i > 1 /\ IsLetter(s[i-1]) THEN LowerChar(s[i]) ELSE UpperChar(s[i])]

\* s[i..j] (1-based, inclusive)
Slice(s, i, j) == SubSeq(s, i, j)

NONE == [py |-> "None"]

\* the element of a one-element set; The({e(x) : x \in {v}}) is e(v) with v
\* evaluated once
The(S) == CHOOSE x \in S : TRUE

(***************************************************************************)
(* Tag Parser: parse_tags                                                  *)
(***************************************************************************)
sCharacter == <<"c","h","a","r","a","c","t","e","r">>
sLocation == <<"l","o","c","a","t","i","o","n">>
sScene == <<"s","c","e","n","e">>
sTheme == <<"t","h","e","m","e">>
sStory == <<"s","t","o","r","y">>

\* entity_mapping
entity_mapping == [c \in {sCharacter, sLocation, sScene, sTheme, sStory} |->
                     CASE c = sCharacter -> "characters"
                       [] c = sLocation -> "locations"
                       [] c = sScene -> "scenes"
                       [] c = sTheme -> "themes"
                       [] c = sStory -> "stories"]

\* last index of the maximal run of characters satisfying the class that
\* starts at i (i-1 when the run is empty)
RECURSIVE RunEnd(_, _, _)
RunEnd(text, i, word) ==
  IF i <= Len(text) /\ (IF word THEN IsWordChar(text[i]) ELSE IsValueChar(text[i]))
  THEN RunEnd(text, i + 1, word)
  ELSE i - 1

\* re.findall(r'@(\w+):([A-Za-z_]+)', text) scanning from position i
RECURSIVE FindAll(_, _)
FindAll(text, i) ==
  IF i > Len(text) THEN <<>>
  ELSE IF text[i] # "@" THEN FindAll(text, i + 1)
  ELSE LET j == RunEnd(text, i + 1, TRUE)
           k == RunEnd(text, j + 2, FALSE)
       IN IF j >= i + 1 /\ j + 1 <= Len(text) /\ text[j + 1] = ":" /\ k >= j + 2
          THEN <<[category |-> Slice(text, i + 1, j), value |-> Slice(text, j + 2, k)]>>
                 \o FindAll(text, k + 1)
          ELSE FindAll(text, i + 1)

Marker(m) == <<"@">> \o m.category \o <<":">> \o m.value

\* variant: the category is looked up without lower-casing it
TagBucket_CaseSensitive(m) ==
  IF m.category \in DOMAIN entity_mapping
  THEN entity_mapping[m.category]
  ELSE "tags"

\* the record appended for one match, and the bucket it is appended to
TagBucket(m) ==
  IF Lower(m.category) \in DOMAIN entity_mapping
  THEN entity_mapping[Lower(m.category)]
  ELSE "tags"

TagRecord(m) ==
  LET b == TagBucket(m) IN
  CASE b = "characters" -> [name |-> m.value,
                            description |-> <<"Character mentioned via ">> \o Marker(m),
                            role |-> <<"unknown">>]
    [] b = "locations" -> [name |-> m.value,
                           description |-> <<"Location mentioned via ">> \o Marker(m),
                           type |-> <<"unknown">>]
    [] b = "scenes" -> [title |-> m.value,
                        summary |-> <<"Scene mentioned via ">> \o Marker(m)]
    [] b = "themes" -> [name |-> m.value,
                        description |-> <<"Theme mentioned via ">> \o Marker(m)]
    [] b = "stories" -> [title |-> m.value,
                         summary |-> <<"Story mentioned via ">> \o Marker(m)]
    [] b = "tags" -> [category |-> m.category,
                      value |-> m.value,
                      name |-> Title(m.category) \o <<":", " ">> \o Title(m.value),
                      description |-> <<"Tagged as ">> \o Marker(m)]

ParsedBuckets == {"characters", "locations", "scenes", "themes", "stories", "tags"}

RECURSIVE Classify(_, _)
Classify(matches, acc) ==
  IF matches = <<>> THEN acc
  ELSE LET m == Head(matches)
           b == TagBucket(m)
       IN Classify(Tail(matches), [acc EXCEPT ![b] = Append(@, TagRecord(m))])

parse_tags(text) == Classify(FindAll(text, 1), [b \in ParsedBuckets |-> <<>>])

(***************************************************************************)
(* Extraction Oracle Adapter: extract_entities_and_relationships           *)
(*                                                                         *)
(* An oracle response is either a failed call or a content string.  The    *)
(* content is a sequence of tokens:                                        *)
(*   "{" "}" ","   the characters themselves, outside any member           *)
(*   "prose"       text without braces                                     *)
(*   "ent"         the member text  "entities": {...}                      *)
(*   "rel"         the member text  "relationships": [...]                 *)
(*   "other"       the member text  "note": "..."                          *)
(* The values of the "ent" and "rel" members are the response's payload.   *)
(***************************************************************************)
Tokens == {"{", "}", ",", "prose", "ent", "rel", "other"}
MemberTokens == {"ent", "rel", "other"}

EmptyDict == [k \in {} |-> NONE]
EMPTY_RESULT == [entities |-> EmptyDict, relationships |-> <<>>]

Get(d, k, default) == IF k \in DOMAIN d THEN d[k] ELSE default

\* does the text of token tok contain a brace: an object value always does,
\* a list value does when it holds at least one record
HasBrace(resp, tok) ==
  \/ tok \in {"{", "}", "ent"}
  \/ tok = "rel" /\ resp.relationships # <<>>

BraceIdx(resp) == {i \in DOMAIN resp.content : HasBrace(resp, resp.content[i])}
Min(S) == CHOOSE m \in S : \A n \in S : m <= n
Max(S) == CHOOSE m \in S : \A n \in S : m >= n

\* the members between the outer braces form  member ("," member)*  or nothing
RECURSIVE IsMemberList(_)
IsMemberList(toks) ==
  \/ toks = <<>>
  \/ Len(toks) = 1 /\ toks[1] \in MemberTokens
  \/ Len(toks) >= 3 /\ toks[1] \in MemberTokens /\ toks[2] = ","
       /\ Tail(Tail(toks)) # <<>> /\ IsMemberList(Tail(Tail(toks)))

MemberValue(resp, tok) ==
  CASE tok = "ent" -> resp.entities
    [] tok = "rel" -> resp.relationships
    [] tok = "other" -> <<"text">>
MemberKey(tok) ==
  CASE tok = "ent" -> "entities"
    [] tok = "rel" -> "relationships"
    [] tok = "other" -> "note"

ObjectOf(resp, toks) ==
  LET present == Range(toks) \cap MemberTokens
  IN [k \in {MemberKey(t) : t \in present} |->
        MemberValue(resp, CHOOSE t \in present : MemberKey(t) = k)]

\* json.loads(re.search(r'\{.*\}', content, re.DOTALL).group()): the text from
\* the first "{" to the last "}".  [found, error, value]
JsonLoadsMatch(resp) ==
  LET B == BraceIdx(resp) IN
  IF B = {} THEN [found |-> FALSE, error |-> FALSE, value |-> NONE]
  ELSE LET f == Min(B)
           l == Max(B)
           c == resp.content
       IN IF c[f] = "{" /\ c[l] = "}" /\ f < l /\ IsMemberList(SubSeq(c, f + 1, l - 1))
          THEN [found |-> TRUE, error |-> FALSE, value |-> ObjectOf(resp, SubSeq(c, f + 1, l - 1))]
          ELSE IF f = l /\ c[f] = "ent"
          THEN [found |-> TRUE, error |-> FALSE, value |-> resp.entities]
          ELSE IF f = l /\ c[f] = "rel" /\ Len(resp.relationships) = 1
          THEN [found |-> TRUE, error |-> FALSE, value |-> resp.relationships[1]]
          ELSE [found |-> TRUE, error |-> TRUE, value |-> NONE]

\* the try body (lines 246-262): [exc, value]
ExtractTry(resp) ==
  IF resp.raises THEN [exc |-> TRUE, value |-> NONE]
  ELSE LET m == JsonLoadsMatch(resp) IN
       IF ~m.found THEN [exc |-> FALSE, value |-> EMPTY_RESULT]
       ELSE IF m.error THEN [exc |-> TRUE, value |-> NONE]
       ELSE [exc |-> FALSE, value |-> m.value]

\* variant: the exception is not caught
ExtractExcept_Propagate(t) ==
  IF t.exc THEN [raised |-> TRUE, value |-> NONE]
  ELSE [raised |-> FALSE, value |-> t.value]

\* the except clause (lines 264-266): [raised, value]
ExtractExcept(t) ==
  IF t.exc THEN [raised |-> FALSE, value |-> EMPTY_RESULT]
  ELSE [raised |-> FALSE, value |-> t.value]

extract_entities_and_relationships(resp) == ExtractExcept(ExtractTry(resp))

(***************************************************************************)
(* Ingestion Pipeline: merge of inline-tag records into the oracle's lists *)
(* (ingest_text_file lines 461-494, ingest_text_content lines 532-565)     *)
(***************************************************************************)
\* the attribute the merge loop reads as identifier for a bucket
MergeKey(entity_type) ==
  IF entity_type \in {"scenes", "stories"} THEN "title" ELSE "name"

\* existing_names = {e.get(key, "").lower() for e in existing_entities}
ExistingNames(existing, key) ==
  {Lower(Get(existing[i], key, <<>>)) : i \in DOMAIN existing}

\* variant: the identifier is compared without lower-casing it
RECURSIVE MergeLoop_CaseSensitive(_, _, _, _)
MergeLoop_CaseSensitive(existing, names, entities, key) ==
  IF entities = <<>> THEN existing
  ELSE LET entity == Head(entities)
           identifier == Get(entity, key, <<>>)
       IN IF identifier # <<>> /\ identifier \notin names
          THEN MergeLoop_CaseSensitive(Append(existing, entity), names \cup {identifier},
                                       Tail(entities), key)
          ELSE MergeLoop_CaseSensitive(existing, names, Tail(entities), key)

\* the loop "for entity in entities": appends to existing, adds to names
RECURSIVE MergeLoop(_, _, _, _)
MergeLoop(existing, names, entities, key) ==
  IF entities = <<>> THEN existing
  ELSE LET entity == Head(entities)
           identifier == Lower(Get(entity, key, <<>>))
       IN IF identifier # <<>> /\ identifier \notin names
          THEN MergeLoop(Append(existing, entity), names \cup {identifier}, Tail(entities), key)
          ELSE MergeLoop(existing, names, Tail(entities), key)

MergeBucket(existing, entities, entity_type) ==
  MergeLoop(existing, ExistingNames(existing, MergeKey(entity_type)),
            entities, MergeKey(entity_type))

\* extracted_data after the merge block
MergeParsed(extracted, parsed) ==
  LET ents == Get(extracted, "entities", EmptyDict)
      touched == {b \in DOMAIN parsed : parsed[b] # <<>>}
      merged == [b \in DOMAIN ents \cup touched |->
                   IF b \in touched
                   THEN MergeBucket(Get(ents, b, <<>>), parsed[b], b)
                   ELSE ents[b]]
  IN [k \in DOMAIN extracted \cup {"entities"} |->
        IF k = "entities" THEN merged ELSE extracted[k]]

(***************************************************************************)
(* Graph store: MERGE / SET as issued by create_entities_in_neo4j          *)
(***************************************************************************)
\* bucket, node label, natural key and SET attributes, in the order of the
\* loops of create_entities_in_neo4j
EntitySchema == <<
  [bucket |-> "characters", label |-> "Character", key |-> "name",
   attrs |-> {"description", "age", "role", "traits"}],
  [bucket |-> "locations", label |-> "Location", key |-> "name",
   attrs |-> {"type", "description"}],
  [bucket |-> "scenes", label |-> "Scene", key |-> "title",
   attrs |-> {"summary", "setting", "mood"}],
  [bucket |-> "themes", label |-> "Theme", key |-> "name",
   attrs |-> {"description"}],
  [bucket |-> "plot_points", label |-> "PlotPoint", key |-> "title",
   attrs |-> {"description", "importance", "type"}],
  [bucket |-> "tags", label |-> "Tag", key |-> "name",
   attrs |-> {"category", "value", "description"}] >>

\* rec.get(attr, default): every default is "" or [], except age (None)
NullAttrs(sch, rec) == {a \in sch.attrs : a = "age" /\ a \notin DOMAIN rec}
AttrValue(rec, a) == Get(rec, a, <<>>)

TestFields == {"_test_marker", "_test_timestamp"}

\* variant: an attribute that the record lacks is left as it was
SetProps_KeepMissing(props, sch, rec, testing) ==
  LET assigned == (sch.attrs \cap DOMAIN rec) \cup (IF testing THEN TestFields ELSE {})
  IN [k \in DOMAIN props \cup assigned |->
        IF k = "_test_marker" /\ testing THEN TRUE
        ELSE IF k = "_test_timestamp" /\ testing THEN <<"datetime()">>
        ELSE IF k \in assigned THEN rec[k]
        ELSE props[k]]

\* the properties of a matched or created node after the SET clause;
\* SET x = null removes the property
SetProps(props, sch, rec, testing) ==
  LET nulls == NullAttrs(sch, rec)
      assigned == (sch.attrs \ nulls) \cup (IF testing THEN TestFields ELSE {})
  IN [k \in (DOMAIN props \ nulls) \cup assigned |->
        IF k = "_test_marker" /\ testing THEN TRUE
        ELSE IF k = "_test_timestamp" /\ testing THEN <<"datetime()">>
        ELSE IF k \in assigned THEN AttrValue(rec, k)
        ELSE props[k]]

NewId(N) == IF N = {} THEN 1 ELSE Max({n.id : n \in N}) + 1

HasProp(n, k, v) == k \in DOMAIN n.props /\ n.props[k] = v

\* variant: CREATE in place of MERGE
MergeNode_Create(N, sch, rec, testing) ==
  N \cup {[id |-> NewId(N), label |-> sch.label,
            props |-> SetProps((sch.key :> rec[sch.key]), sch, rec, testing)]}

\* MERGE (x:Label {key: $key}) SET ...
MergeNode(N, sch, rec, testing) ==
  LET keyval == rec[sch.key]
      matched == {n \in N : n.label = sch.label /\ HasProp(n, sch.key, keyval)}
  IN IF matched = {}
     THEN N \cup {[id |-> NewId(N), label |-> sch.label,
                   props |-> SetProps((sch.key :> keyval), sch, rec, testing)]}
     ELSE (N \ matched) \cup
          {[n EXCEPT !.props = SetProps(n.props, sch, rec, testing)] : n \in matched}

\* one "for rec in entities.get(bucket, [])" loop; rec[key] raises KeyError
RECURSIVE UpsertBucket(_, _, _, _)
UpsertBucket(N, sch, recs, testing) ==
  IF recs = <<>> THEN [nodes |-> N, raised |-> FALSE]
  ELSE IF sch.key \notin DOMAIN Head(recs) THEN [nodes |-> N, raised |-> TRUE]
  ELSE UpsertBucket(MergeNode(N, sch, Head(recs), testing), sch, Tail(recs), testing)

RECURSIVE UpsertAll(_, _, _, _)
UpsertAll(N, entities, i, testing) ==
  IF i > Len(EntitySchema) THEN [nodes |-> N, raised |-> FALSE]
  ELSE LET r == UpsertBucket(N, EntitySchema[i],
                             Get(entities, EntitySchema[i].bucket, <<>>), testing)
       IN IF r.raised THEN r ELSE UpsertAll(r.nodes, entities, i + 1, testing)

\* variant: session = driver.session() and session.close() after the block,
\* which an exception of the block skips
WithSession_CloseOnReturn(r) ==
  r @@ [opened |-> 1, closed |-> IF r.raised THEN 0 ELSE 1]

\* with self.db.driver.session() as session: the result r of the block,
\* with the number of sessions opened and the number closed; __exit__ closes
\* the session when the block ends and when an exception leaves it
WithSession(r) == r @@ [opened |-> 1, closed |-> 1]

\* [nodes, raised, opened, closed]
create_entities_in_neo4j(N, entities, testing) ==
  WithSession(UpsertAll(N, entities, 1, testing))

(***************************************************************************)
(* Graph store: the query of create_relationships_in_neo4j                 *)
(***************************************************************************)
\* the interpolated type must be a symbolic name for the query to parse;
\* type strings are letters, digits, "_" and spaces in this model
IsSymbolicName(t) ==
  /\ t # <<>>
  /\ IsLetter(t[1]) \/ t[1] = "_"
  /\ \A i \in DOMAIN t : IsWordChar(t[i])

\* WHERE a.name = $from_name OR a.title = $from_name
\*       AND (b.name = $to_name OR b.title = $to_name)
\* AND binds tighter than OR
WhereClause(a, b, from_name, to_name) ==
  \/ HasProp(a, "name", from_name)
  \/ /\ HasProp(a, "title", from_name)
     /\ (HasProp(b, "name", to_name) \/ HasProp(b, "title", to_name))

\* MATCH (a), (b) WHERE ...
MatchRows(N, from_name, to_name) ==
  {row \in N \X N : WhereClause(row[1], row[2], from_name, to_name)}

\* variant: CREATE in place of MERGE
MergeEdge_Create(E, a, b, type, description) ==
  E (+) SetToBag({[src |-> a, dst |-> b, type |-> type,
                   props |-> [description |-> description]]})

\* MERGE (a)-[r:type]->(b) SET r.description = $description, for one row
MergeEdge(E, a, b, type, description) ==
  LET matched == {e \in BagToSet(E) : e.src = a /\ e.dst = b /\ e.type = type}
      new == [src |-> a, dst |-> b, type |-> type,
              props |-> [description |-> description]]
  IN IF matched = {}
     THEN E (+) SetToBag({new})
     ELSE [e \in BagToSet(E) \ matched |-> E[e]]
            (+) (new :> BagCardinality([e \in matched |-> E[e]]))

RECURSIVE MergeEdges(_, _, _, _)
MergeEdges(E, rows, type, description) ==
  IF rows = {} THEN E
  ELSE LET row == CHOOSE r \in rows : TRUE
       IN MergeEdges(MergeEdge(E, row[1].id, row[2].id, type, description),
                     rows \ {row}, type, description)

\* variant: MERGE of the whole path, which creates an endpoint that is missing
RunRelQuery_MergePath(N, E, rel) ==
  LET missing == {s \in {rel.from, rel.to} :
                    ~\E n \in N : HasProp(n, "name", s) \/ HasProp(n, "title", s)}
      created == IF missing = {} THEN N
                 ELSE N \cup {[id |-> NewId(N), label |-> "Node",
                               props |-> [name |-> CHOOSE s \in missing : TRUE]]}
  IN [nodes |-> created,
      edges |-> MergeEdges(E, MatchRows(created, rel.from, rel.to), rel.type,
                           Get(rel, "description", <<>>))]

\* the effect of the query on the store for one record: a and b are bound by
\* MATCH, so MERGE adds relationships between the matched rows only
RunRelQuery(N, E, rel) ==
  [nodes |-> N,
   edges |-> MergeEdges(E, MatchRows(N, rel.from, rel.to), rel.type,
                        Get(rel, "description", <<>>))]

\* the loop body for one record: [nodes, edges, raised, submitted]
\*   raised:    the f-string rel['type'] sits before the try
\*   submitted: session.run was called with the query
RelStep(N, E, rel) ==
  IF "type" \notin DOMAIN rel
  THEN [nodes |-> N, edges |-> E, raised |-> TRUE, submitted |-> FALSE]
  ELSE IF "from" \notin DOMAIN rel \/ "to" \notin DOMAIN rel
  THEN [nodes |-> N, edges |-> E, raised |-> FALSE, submitted |-> FALSE]
  ELSE IF ~IsSymbolicName(rel.type)
  THEN [nodes |-> N, edges |-> E, raised |-> FALSE, submitted |-> TRUE]
  ELSE LET q == RunRelQuery(N, E, rel)
       IN [nodes |-> q.nodes, edges |-> q.edges, raised |-> FALSE, submitted |-> TRUE]

\* [nodes, edges, raised, submitted]: submitted lists the indices of the
\* records whose query was sent to the store
RECURSIVE RelLoop(_, _, _, _, _)
RelLoop(N, E, rels, i, submitted) ==
  IF i > Len(rels)
  THEN [nodes |-> N, edges |-> E, raised |-> FALSE, submitted |-> submitted]
  ELSE LET r == RelStep(N, E, rels[i])
           sub == IF r.submitted THEN submitted \cup {i} ELSE submitted
       IN IF r.raised
          THEN [nodes |-> r.nodes, edges |-> r.edges, raised |-> TRUE, submitted |-> sub]
          ELSE RelLoop(r.nodes, r.edges, rels, i + 1, sub)

\* [nodes, edges, raised, submitted, opened, closed]
create_relationships_in_neo4j(N, E, rels) == WithSession(RelLoop(N, E, rels, 1, {}))

(***************************************************************************)
(* Graph store: the queries of WritingGraphDB.search_by_keyword            *)
(***************************************************************************)
\* s CONTAINS kw
Contains(s, kw) ==
  \/ kw = <<>>
  \/ \E i \in 0..(Len(s) - Len(kw)) :
       s[i + 1] = kw[1] /\ SubSeq(s, i + 1, i + Len(kw)) = kw

\* toLower(x.attr) CONTAINS toLower($keyword); null, hence no match, when the
\* node has no such property
LowerContains(n, attr, keyword) ==
  attr \in DOMAIN n.props /\ Contains(Lower(n.props[attr]), Lower(keyword))

\* the three queries: result key, label, and the two properties searched
SearchSchema == <<
  [bucket |-> "characters", label |-> "Character", name |-> "name",
   description |-> "description"],
  [bucket |-> "locations", label |-> "Location", name |-> "name",
   description |-> "description"],
  [bucket |-> "scenes", label |-> "Scene", name |-> "title",
   description |-> "summary"] >>

\* the nodes one query matches
SearchHits(N, sch, keyword) ==
  {n \in N : /\ n.label = sch.label
             /\ \/ LowerContains(n, sch.name, keyword)
                \/ LowerContains(n, sch.description, keyword)}

\* RETURN x.name as name, x.description as description, 'Label' as type
SearchRow(n, sch) ==
  [name |-> Get(n.props, sch.name, NONE),
   description |-> Get(n.props, sch.description, NONE),
   type |-> sch.label]

\* the nodes behind the rows of the three result lists
SearchedNodes(N, keyword) ==
  UNION {SearchHits(N, SearchSchema[i], keyword) : i \in DOMAIN SearchSchema}

\* the dict returned; each list is given as the set of its rows
search_by_keyword(N, keyword) ==
  [b \in {SearchSchema[i].bucket : i \in DOMAIN SearchSchema} |->
     LET sch == SearchSchema[CHOOSE i \in DOMAIN SearchSchema : SearchSchema[i].bucket = b]
     IN {SearchRow(n, sch) : n \in SearchHits(N, sch, keyword)}]

(***************************************************************************)
(* Content Organizer: detect_content_type (organize_content.py)            *)
(*                                                                         *)
(* File contents are strings with one character per piece; the text that   *)
(* follows a keyword on its line may be a single opaque piece.             *)
(***************************************************************************)
sWorldbuilding == <<"w", "o", "r", "l", "d", "b", "u", "i", "l", "d", "i", "n", "g">>
sResearch == <<"r", "e", "s", "e", "a", "r", "c", "h">>

\* \s
IsSpace(c) == c \in {" ", "\n"}

\* s[i:].startswith(p)
StartsWithAt(s, i, p) ==
  i >= 1 /\ i + Len(p) - 1 <= Len(s) /\ SubSeq(s, i, i + Len(p) - 1) = p

\* last index of the maximal run of whitespace that starts at i (i-1 when
\* the run is empty)
RECURSIVE SpaceRunEnd(_, _)
SpaceRunEnd(s, i) ==
  IF i <= Len(s) /\ IsSpace(s[i]) THEN SpaceRunEnd(s, i + 1) ELSE i - 1

\* does \n---\s*\n match at k
ClosesAt(s, k) ==
  /\ StartsWithAt(s, k, <<"\n", "-", "-", "-">>)
  /\ \E m \in (k + 4)..SpaceRunEnd(s, k + 4) : s[m] = "\n"

\* re.search(r'^---\s*\n(.*?)\n---\s*\n', content, re.DOTALL): [found, group1].
\* ^ is the start of the string.  \s* is greedy: the opening ends at the last
\* newline p of the whitespace after --- for which the rest can match; .*? is
\* lazy: the group ends at the first q where the closing matches.
frontmatter_match(content) ==
  LET w == SpaceRunEnd(content, 4)
      Q(p) == {k \in p..Len(content) : ClosesAt(content, k + 1)}
      good == {p \in 4..w : content[p] = "\n" /\ Q(p) # {}}
  IN IF ~StartsWithAt(content, 1, <<"-", "-", "-">>) \/ good = {}
     THEN [found |-> FALSE, group1 |-> <<>>]
     ELSE [found |-> TRUE, group1 |-> SubSeq(content, Max(good) + 1, Min(Q(Max(good))))]

\* re.search(key + r'\s*(\w+)', frontmatter): [found, group1], the first
\* position where the key is followed by whitespace and a word
KeyWordMatch(frontmatter, key) ==
  LET WordStart(i) == SpaceRunEnd(frontmatter, i + Len(key)) + 1
      hits == {i \in DOMAIN frontmatter :
                 /\ StartsWithAt(frontmatter, i, key)
                 /\ RunEnd(frontmatter, WordStart(i), TRUE) >= WordStart(i)}
  IN IF hits = {} THEN [found |-> FALSE, group1 |-> <<>>]
     ELSE [found |-> TRUE,
           group1 |-> SubSeq(frontmatter, WordStart(Min(hits)),
                             RunEnd(frontmatter, WordStart(Min(hits)), TRUE))]

\* re.search(r'type:\s*(\w+)', frontmatter)
type_match(frontmatter) == KeyWordMatch(frontmatter, <<"t", "y", "p", "e", ":">>)

\* the indicator lists, in the order of the if statements
Indicators == <<
  [type |-> sCharacter,
   words |-> <<<<"c", "h", "a", "r", "a", "c", "t", "e", "r", ":">>,
               <<"p", "e", "r", "s", "o", "n", "a", "l", "i", "t", "y", ":">>,
               <<"b", "a", "c", "k", "s", "t", "o", "r", "y", ":">>,
               <<"a", "p", "p", "e", "a", "r", "a", "n", "c", "e", ":">>>>],
  [type |-> sLocation,
   words |-> <<<<"l", "o", "c", "a", "t", "i", "o", "n", ":">>,
               <<"s", "e", "t", "t", "i", "n", "g", ":">>,
               <<"g", "e", "o", "g", "r", "a", "p", "h", "y", ":">>,
               <<"a", "r", "c", "h", "i", "t", "e", "c", "t", "u", "r", "e", ":">>>>],
  [type |-> sScene,
   words |-> <<<<"s", "c", "e", "n", "e", ":">>,
               <<"d", "i", "a", "l", "o", "g", "u", "e", ":">>,
               <<"a", "c", "t", "i", "o", "n", ":">>,
               <<"p", "o", "v", ":">>>>],
  [type |-> sStory,
   words |-> <<<<"c", "h", "a", "p", "t", "e", "r">>,
               <<"s", "t", "o", "r", "y", ":">>,
               <<"p", "l", "o", "t", ":">>,
               <<"n", "a", "r", "r", "a", "t", "i", "v", "e", ":">>>>],
  [type |-> sWorldbuilding,
   words |-> <<<<"m", "a", "g", "i", "c", " ", "s", "y", "s", "t", "e", "m">>,
               <<"w", "o", "r", "l", "d", ":">>,
               <<"c", "u", "l", "t", "u", "r", "e", ":">>,
               <<"h", "i", "s", "t", "o", "r", "y", ":">>,
               <<"r", "e", "l", "i", "g", "i", "o", "n", ":">>,
               <<"t", "e", "c", "h", "n", "o", "l", "o", "g", "y", ":">>>>],
  [type |-> sTheme,
   words |-> <<<<"t", "h", "e", "m", "e", ":">>,
               <<"m", "o", "t", "i", "f", ":">>,
               <<"s", "y", "m", "b", "o", "l", "i", "s", "m", ":">>,
               <<"m", "e", "a", "n", "i", "n", "g", ":">>>>],
  [type |-> sResearch,
   words |-> <<<<"r", "e", "s", "e", "a", "r", "c", "h", ":">>,
               <<"r", "e", "f", "e", "r", "e", "n", "c", "e", ":">>,
               <<"i", "n", "s", "p", "i", "r", "a", "t", "i", "o", "n", ":">>,
               <<"n", "o", "t", "e", "s", ":">>>>] >>

\* any(word in content_lower for word in words)
AnyWordIn(content_lower, words) ==
  \E k \in DOMAIN words : Contains(content_lower, words[k])

\* variant: the location indicators are tested before the character ones
FirstIndicator_LocationFirst(content_lower) ==
  LET order == <<2, 1, 3, 4, 5, 6, 7>>
      hits == {k \in DOMAIN order : AnyWordIn(content_lower, Indicators[order[k]].words)}
  IN IF hits = {} THEN sStory ELSE Indicators[order[Min(hits)]].type

\* the chain of if statements (lines 50-79)
FirstIndicator(content_lower) ==
  LET hits == {k \in DOMAIN Indicators : AnyWordIn(content_lower, Indicators[k].words)}
  IN IF hits = {} THEN sStory ELSE Indicators[Min(hits)].type

\* the content type returned for the content read from the file
detect_content_type(content) ==
  LET fm == frontmatter_match(content)
      tm == type_match(fm.group1)
  IN IF fm.found /\ tm.found THEN Lower(tm.group1)
     ELSE FirstIndicator(Lower(content))

\* self.type_dirs: content type -> directory under base_dir
type_dirs == [t \in {sCharacter, sLocation, sScene, sStory, sWorldbuilding, sTheme,
                     sResearch} |->
                CASE t = sCharacter -> "characters"
                  [] t = sLocation -> "locations"
                  [] t = sScene -> "scenes"
                  [] t = sStory -> "stories"
                  [] t = sWorldbuilding -> "worldbuilding"
                  [] t = sTheme -> "themes"
                  [] t = sResearch -> "research"]

\* self.type_dirs.get(content_type, self.base_dir / "stories")
target_dir(content_type) == Get(type_dirs, content_type, "stories")

(***************************************************************************)
(* Ingestion Pipeline: ingest_text_content / ingest_text_file body         *)
(***************************************************************************)
\* [nodes, edges, raised, value, submitted, opened, closed] after parse,
\* extract, merge, report and persistence
IngestBody(N, E, content, resp, testing) ==
  LET parsed_tags == parse_tags(content)
      extracted == extract_entities_and_relationships(resp)
      data == MergeParsed(extracted.value, parsed_tags)
  IN IF extracted.raised \/ "relationships" \notin DOMAIN data
     THEN [nodes |-> N, edges |-> E, raised |-> TRUE, value |-> NONE, submitted |-> {},
           opened |-> 0, closed |-> 0]
     ELSE The({
       IF ce.raised
       THEN [nodes |-> ce.nodes, edges |-> E, raised |-> TRUE, value |-> NONE,
             submitted |-> {}, opened |-> ce.opened, closed |-> ce.closed]
       ELSE The({
         [nodes |-> cr.nodes, edges |-> cr.edges, raised |-> cr.raised,
          value |-> IF cr.raised THEN NONE ELSE data,
          submitted |-> cr.submitted,
          opened |-> ce.opened + cr.opened, closed |-> ce.closed + cr.closed] :
           cr \in {create_relationships_in_neo4j(ce.nodes, E, data.relationships)}}) :
         ce \in {create_entities_in_neo4j(N, data.entities, testing)}})

\* ingest_text_content: exceptions propagate to the caller
ingest_text_content(N, E, content, resp, testing) ==
  IngestBody(N, E, content, resp, testing)

\* ingest_text_file: open() fails for a missing file; every exception is
\* caught and None is returned
NoFile == <<"<no such file>">>
ingest_text_file(N, E, content, resp, testing) ==
  IF content = NoFile
  THEN [nodes |-> N, edges |-> E, raised |-> FALSE, value |-> NONE, submitted |-> {},
        opened |-> 0, closed |-> 0]
  ELSE LET r == IngestBody(N, E, content, resp, testing)
       IN [r EXCEPT !.raised = FALSE]

(***************************************************************************)
(* reingest_file                                                           *)
(***************************************************************************)
\* the attributes of WritingGraphDB (neo4j_connector.py lines 14-165)
WritingGraphDB == {"driver", "close", "test_connection", "get_all_characters",
                   "get_character_scenes", "get_character_relationships",
                   "get_story_overview", "search_by_keyword", "get_all_tags",
                   "get_tags_by_category"}

\* the cleanup sweep, which WritingGraphDB does not define, as the
\* specification describes it: every test-marked node is deleted, with the
\* edges that start or end at it.  [nodes, edges]
cleanup_test_entities(N, E) ==
  LET kept == {n \in N : ~HasProp(n, "_test_marker", TRUE)}
      ids == {n.id : n \in kept}
  IN [nodes |-> kept,
      edges |-> [e \in {x \in DOMAIN E : x.src \in ids /\ x.dst \in ids} |-> E[e]]]

\* the try block of reingest_file, entered with self.testing_mode = True:
\* [nodes, edges, raised, value, steps, opened, closed, testing_mode], where
\* steps lists the calls that were made and testing_mode is the mode when
\* the block is left.
\* self.db.cleanup_test_entities() is an attribute lookup on WritingGraphDB;
\* the lookup fails with AttributeError, which no except clause catches, and
\* the statements after it (lines 81-85) are not reached.
ReingestTry(N, E, content, resp) ==
  The({[nodes |-> first.nodes, edges |-> first.edges,
        raised |-> "cleanup_test_entities" \notin WritingGraphDB,
        value |-> NONE, steps |-> <<"ingest_text_file(test)">>,
        opened |-> first.opened, closed |-> first.closed,
        testing_mode |-> TRUE] :
         first \in {ingest_text_file(N, E, content, resp, TRUE)}})

\* variant: no finally clause, the mode is left as the try block left it
reingest_file_NoFinally(N, E, content, resp, testing) ==
  ReingestTry(N, E, content, resp)

\* reingest_file on a pipeline whose testing_mode is testing: the finally
\* clause sets self.testing_mode = old_testing_mode on every way out of the
\* try block
reingest_file(N, E, content, resp, testing) ==
  [ReingestTry(N, E, content, resp) EXCEPT !.testing_mode = testing]

(***************************************************************************)
(* Content Organizer: file names and the move (organize_content.py)        *)
(*                                                                         *)
(* A path is a record [dir, name]: a directory under base_dir (or any      *)
(* other place) and a file name, a string with one character per piece.    *)
(* The file system is a record [dirs, files]: the directories that exist   *)
(* and a function from the paths of the files to their content.            *)
(***************************************************************************)
Path(dir, name) == [dir |-> dir, name |-> name]

\* the file system without directories and files.  The pipeline takes the
\* content of the file it reads as an input; the directories and files
\* matter to the Content Organizer only
NoFS == [dirs |-> {}, files |-> <<>>]

\* the content of a file that is not valid UTF-8: f.read() raises
Undecodable == <<"<not utf-8>">>

\* open(file_path, 'r', encoding='utf-8') and f.read(): [raised, error, content]
ReadFile(F, file_path) ==
  IF file_path \notin DOMAIN F.files
  THEN [raised |-> TRUE, error |-> "FileNotFoundError", content |-> <<>>]
  ELSE IF F.files[file_path] = Undecodable
  THEN [raised |-> TRUE, error |-> "UnicodeDecodeError", content |-> <<>>]
  ELSE [raised |-> FALSE, error |-> "", content |-> F.files[file_path]]

\* last index of the part of the line that starts at i (i-1 when s[i] is a
\* newline or i is past the end)
RECURSIVE EndOfLine(_, _)
EndOfLine(s, i) ==
  IF i <= Len(s) /\ s[i] # "\n" THEN EndOfLine(s, i + 1) ELSE i - 1

\* \s{least,}(.+) matched at a: the whitespace is greedy and gives back
\* characters until one that is not a newline follows; the group runs to the
\* end of that line.  [found, group1]
SpacesThenRest(s, a, least) ==
  LET ends == {e \in (a - 1 + least)..SpaceRunEnd(s, a) :
                 e + 1 <= Len(s) /\ s[e + 1] # "\n"}
  IN IF ends = {} THEN [found |-> FALSE, group1 |-> <<>>]
     ELSE [found |-> TRUE, group1 |-> SubSeq(s, Max(ends) + 1, EndOfLine(s, Max(ends) + 1))]

\* re.search(r'^#\s+(.+)$', content, re.MULTILINE)
HeadingMatch(content) ==
  LET hits == {i \in DOMAIN content :
                 /\ content[i] = "#"
                 /\ i = 1 \/ content[i - 1] = "\n"
                 /\ SpacesThenRest(content, i + 1, 1).found}
  IN IF hits = {} THEN [found |-> FALSE, group1 |-> <<>>]
     ELSE SpacesThenRest(content, Min(hits) + 1, 1)

\* re.search(r'title:\s*(.+)', frontmatter)
TitleFieldMatch(frontmatter) ==
  LET key == <<"t", "i", "t", "l", "e", ":">>
      hits == {i \in DOMAIN frontmatter :
                 /\ StartsWithAt(frontmatter, i, key)
                 /\ SpacesThenRest(frontmatter, i + Len(key), 0).found}
  IN IF hits = {} THEN [found |-> FALSE, group1 |-> <<>>]
     ELSE SpacesThenRest(frontmatter, Min(hits) + Len(key), 0)

\* s.strip(chars)
RECURSIVE LStrip(_, _)
LStrip(s, chars) ==
  IF s # <<>> /\ Head(s) \in chars THEN LStrip(Tail(s), chars) ELSE s
RECURSIVE RStrip(_, _)
RStrip(s, chars) ==
  IF s # <<>> /\ s[Len(s)] \in chars THEN RStrip(SubSeq(s, 1, Len(s) - 1), chars) ELSE s
StripChars(s, chars) == RStrip(LStrip(s, chars), chars)
Strip(s) == StripChars(s, {" ", "\n"})

\* re.sub(r'[^\w\s-]', '', title)
KeepTitleChars(title) ==
  SelectSeq(title, LAMBDA c : IsWordChar(c) \/ IsSpace(c) \/ c = "-")

\* re.sub(r'\s+', '_', s)
RECURSIVE SpacesToUnderscore(_)
SpacesToUnderscore(s) ==
  IF s = <<>> THEN <<>>
  ELSE IF IsSpace(Head(s))
  THEN <<"_">> \o SpacesToUnderscore(SubSeq(s, SpaceRunEnd(s, 1) + 1, Len(s)))
  ELSE <<Head(s)>> \o SpacesToUnderscore(Tail(s))

\* clean_title.lower() for a title
CleanTitle(title) == Lower(SpacesToUnderscore(Strip(KeepTitleChars(title))))

\* extract_title_from_content for the content read: the title, or None
extract_title_from_content(content) ==
  LET h == HeadingMatch(content)
      fm == frontmatter_match(content)
      t == TitleFieldMatch(fm.group1)
  IN IF h.found THEN CleanTitle(Strip(h.group1))
     ELSE IF fm.found /\ t.found
     THEN CleanTitle(StripChars(Strip(t.group1), {"\"", "'"}))
     ELSE NONE

sMd == <<".", "m", "d">>

\* generate_filename: the title with .md, or the original name when there is
\* no title or the title is empty
generate_filename(content, original_name) ==
  LET title == extract_title_from_content(content)
  IN IF title # NONE /\ title # <<>> THEN title \o sMd ELSE original_name

\* Path.suffix and Path.stem of a name: the suffix starts at the last dot,
\* unless that dot is the first or the last character
LastDot(name) ==
  LET D == {i \in DOMAIN name : name[i] = "."} IN IF D = {} THEN 0 ELSE Max(D)
Suffix(name) ==
  IF 1 < LastDot(name) /\ LastDot(name) < Len(name)
  THEN SubSeq(name, LastDot(name), Len(name)) ELSE <<>>
Stem(name) == SubSeq(name, 1, Len(name) - Len(Suffix(name)))

\* str(counter)
DigitSeq == <<"0", "1", "2", "3", "4", "5", "6", "7", "8", "9">>
RECURSIVE Decimal(_)
Decimal(n) ==
  IF n < 10 THEN <<DigitSeq[n + 1]>>
  ELSE Decimal(n \div 10) \o <<DigitSeq[(n % 10) + 1]>>

\* variant: the name is used as it is, without looking for a conflict
FreeName_NoCheck(F, dir, name, counter) == name

\* the while loop of move_and_organize: the name of target_path when
\* target_path.exists() is false
RECURSIVE FreeName(_, _, _, _)
FreeName(F, dir, name, counter) ==
  IF Path(dir, name) \in DOMAIN F.files
  THEN FreeName(F, dir, Stem(name) \o <<"_">> \o Decimal(counter) \o Suffix(name),
                counter + 1)
  ELSE name

\* shutil.move(src, dst) for a dst that may exist: the file at dst is replaced
MoveFile(files, src, dst) ==
  [p \in (DOMAIN files \ {src}) \cup {dst} |-> IF p = dst THEN files[src] ELSE files[p]]

\* move_and_organize: [fs, raised, value]; mkdir comes first and stays when
\* the move raises for a missing source
move_and_organize(F, file_path, content_type, new_filename) ==
  LET dir == target_dir(content_type)
      made == [F EXCEPT !.dirs = @ \cup {dir}]
      target_path == Path(dir, FreeName(F, dir, new_filename, 1))
  IN IF file_path \notin DOMAIN F.files
     THEN [fs |-> made, raised |-> TRUE, value |-> NONE]
     ELSE [fs |-> [made EXCEPT !.files = MoveFile(F.files, file_path, target_path)],
           raised |-> FALSE, value |-> target_path]

(***************************************************************************)
(* Content Organizer: process_draft, process_all_drafts, show_summary, main *)
(***************************************************************************)
\* process_draft: [fs, nodes, edges, source_file, raised, error, value,
\* oracle_calls].  The file is read twice, moved, and ingested from its new
\* path; ingest_text_file returns None when the ingestion raised.
process_draft(F, N, E, source_file, file_path, resp, testing) ==
  LET rd == ReadFile(F, file_path) IN
  IF rd.raised
  THEN [fs |-> F, nodes |-> N, edges |-> E, source_file |-> source_file,
        raised |-> TRUE, error |-> rd.error, value |-> NONE, oracle_calls |-> 0]
  ELSE The({The({The({The({
         [fs |-> mv.fs, nodes |-> result.nodes, edges |-> result.edges,
          source_file |-> mv.value, raised |-> FALSE, error |-> "",
          value |-> [original_path |-> file_path, new_path |-> mv.value,
                     content_type |-> content_type, filename |-> new_filename,
                     ingestion_result |-> result.value],
          oracle_calls |-> 1] :
           result \in {ingest_text_file(N, E, rd.content, resp, testing)}}) :
           mv \in {move_and_organize(F, file_path, content_type, new_filename)}}) :
           new_filename \in {generate_filename(rd.content, file_path.name)}}) :
           content_type \in {detect_content_type(rd.content)}})

EndsWith(s, p) == Len(s) >= Len(p) /\ SubSeq(s, Len(s) - Len(p) + 1, Len(s)) = p

\* self.drafts_dir.glob("*.md")
DraftFiles(F) == {p \in DOMAIN F.files : p.dir = "drafts" /\ EndsWith(p.name, sMd)}

\* variant: an exception of process_draft leaves the loop
DraftStep_NoTry(st, file_path, resp, testing) ==
  The({IF st.raised \/ r.raised
       THEN [st EXCEPT !.raised = TRUE]
       ELSE [fs |-> r.fs, nodes |-> r.nodes, edges |-> r.edges,
             source_file |-> r.source_file,
             raised |-> FALSE, value |-> Append(st.value, r.value),
             oracle_calls |-> st.oracle_calls + r.oracle_calls] :
         r \in {process_draft(st.fs, st.nodes, st.edges, st.source_file, file_path, resp,
                              testing)}})

\* the body of the loop of process_all_drafts: try process_draft, and on an
\* exception append the entry with the error
DraftStep(st, file_path, resp, testing) ==
  The({[fs |-> r.fs, nodes |-> r.nodes, edges |-> r.edges, source_file |-> r.source_file,
        raised |-> FALSE,
        value |-> Append(st.value,
                         IF r.raised
                         THEN [original_path |-> file_path, error |-> r.error]
                         ELSE r.value),
        oracle_calls |-> st.oracle_calls + r.oracle_calls] :
         r \in {process_draft(st.fs, st.nodes, st.edges, st.source_file, file_path, resp,
                              testing)}})

RECURSIVE DraftLoop(_, _, _, _)
DraftLoop(st, draft_files, resps, testing) ==
  IF draft_files = <<>> THEN st
  ELSE The({DraftLoop(next, Tail(draft_files), resps, testing) :
              next \in {DraftStep(st, Head(draft_files), resps[Head(draft_files)],
                                  testing)}})

\* process_all_drafts: draft_files is the list the glob gives, in the order
\* the file system lists it; resps gives the oracle's answer for each file
process_all_drafts(F, N, E, source_file, draft_files, resps, testing) ==
  LET st0 == [fs |-> F, nodes |-> N, edges |-> E, source_file |-> source_file,
              raised |-> FALSE, value |-> <<>>, oracle_calls |-> 0]
  IN IF "drafts" \notin F.dirs THEN st0
     ELSE DraftLoop(st0, draft_files, resps, testing)

\* show_summary: the two counts it prints
show_summary(results) ==
  [successful |-> Cardinality({i \in DOMAIN results : "error" \notin DOMAIN results[i]}),
   failed |-> Cardinality({i \in DOMAIN results : "error" \in DOMAIN results[i]})]

NoSummary == [successful |-> 0, failed |-> 0]

\* detect_content_type and generate_filename on one file, as the dry run calls
\* them: [raised, value], the line printed
WouldMove(F, file_path) ==
  LET rd == ReadFile(F, file_path) IN
  IF rd.raised THEN [raised |-> TRUE, value |-> NONE]
  ELSE [raised |-> FALSE,
        value |-> [name |-> file_path.name,
                   content_type |-> detect_content_type(rd.content),
                   filename |-> generate_filename(rd.content, file_path.name)]]

\* the dry-run loop over the drafts: stops at the first file that raises
RECURSIVE WouldMoveAll(_, _, _)
WouldMoveAll(F, draft_files, printed) ==
  IF draft_files = <<>> THEN [raised |-> FALSE, value |-> printed]
  ELSE The({IF w.raised THEN [raised |-> TRUE, value |-> printed]
            ELSE WouldMoveAll(F, Tail(draft_files), Append(printed, w.value)) :
              w \in {WouldMove(F, Head(draft_files))}})

\* main() without --dry-run: [fs, nodes, edges, source_file, raised, results,
\* summary, printed, oracle_calls]
MainRun(F, N, E, args, draft_files, resps) ==
  IF args.file # NONE
  THEN The({[fs |-> r.fs, nodes |-> r.nodes, edges |-> r.edges,
             source_file |-> r.source_file, raised |-> r.raised,
             results |-> IF r.raised THEN <<>> ELSE <<r.value>>,
             summary |-> IF r.raised THEN NoSummary ELSE show_summary(<<r.value>>),
             printed |-> <<>>, oracle_calls |-> r.oracle_calls] :
              r \in {process_draft(F, N, E, NONE, args.file, resps[args.file], FALSE)}})
  ELSE The({[fs |-> r.fs, nodes |-> r.nodes, edges |-> r.edges,
             source_file |-> r.source_file, raised |-> FALSE,
             results |-> r.value, summary |-> show_summary(r.value),
             printed |-> <<>>, oracle_calls |-> r.oracle_calls] :
              r \in {process_all_drafts(F, N, E, NONE, draft_files, resps, FALSE)}})

\* main() with --dry-run
MainDryRun(F, N, E, args, draft_files, resps) ==
  The({[fs |-> F, nodes |-> N, edges |-> E, source_file |-> NONE, raised |-> w.raised,
        results |-> <<>>, summary |-> NoSummary, printed |-> w.value, oracle_calls |-> 0] :
         w \in {IF args.file # NONE
                THEN The({[raised |-> one.raised,
                           value |-> IF one.raised THEN <<>> ELSE <<one.value>>] :
                            one \in {WouldMove(F, args.file)}})
                ELSE WouldMoveAll(F, draft_files, <<>>)}})

\* variant: the --dry-run flag is not looked at
MainBody_NoDryRun(F, N, E, args, draft_files, resps) ==
  MainRun(F, N, E, args, draft_files, resps)

\* lines 227-252 for a file argument that exists, or for no file argument
MainBody(F, N, E, args, draft_files, resps) ==
  IF args.dry_run
  THEN MainDryRun(F, N, E, args, draft_files, resps)
  ELSE MainRun(F, N, E, args, draft_files, resps)

\* main(): organizer = ContentOrganizer() makes a pipeline with the default
\* settings; a file argument that does not exist is reported and main returns
main(F, N, E, args, draft_files, resps) ==
  IF args.file # NONE /\ args.file \notin DOMAIN F.files
  THEN [fs |-> F, nodes |-> N, edges |-> E, source_file |-> NONE, raised |-> FALSE,
        results |-> <<>>, summary |-> NoSummary, printed |-> <<>>, oracle_calls |-> 0]
  ELSE MainBody(F, N, E, args, draft_files, resps)

(***************************************************************************)
(* Query Assistant: generate_cypher_query, execute_cypher_query,           *)
(* format_results, ask (writing_assistant.py)                              *)
(***************************************************************************)
\* an answer of the oracle is [raises, content]; a question is a string
\* cTick stands for the character U+0060 of a code fence
cTick == "<U+0060>"
sFence == <<cTick, cTick, cTick>>
sFenceCypher == sFence \o <<"c", "y", "p", "h", "e", "r">>

\* re.sub(r'^<fence>\s*', '', s)
RemoveLeading(s, fence) ==
  IF StartsWithAt(s, 1, fence)
  THEN SubSeq(s, SpaceRunEnd(s, Len(fence) + 1) + 1, Len(s))
  ELSE s

\* re.sub(r'\s*<fence>$', '', s), for an s without a trailing line break
RemoveTrailingFence(s) ==
  IF EndsWith(s, sFence) THEN RStrip(SubSeq(s, 1, Len(s) - Len(sFence)), {" ", "\n"})
  ELSE s

\* the prompts of the two oracle calls: what they are built from
QueryPrompt(question) == [purpose |-> "cypher", question |-> question]
FormatPrompt(question, results_text) ==
  [purpose |-> "format", question |-> question, results_text |-> results_text]

\* variant: no except clause, the exception of the oracle call propagates
generate_cypher_query_Propagate(natural_language_question, resp) ==
  [value |-> IF resp.raises THEN <<>>
             ELSE RemoveTrailingFence(
                    RemoveLeading(RemoveLeading(Strip(resp.content), sFenceCypher), sFence)),
   calls |-> <<QueryPrompt(natural_language_question)>>,
   raised |-> resp.raises]

\* generate_cypher_query: [value, calls, raised]; the call and the cleaning
\* are inside try, and the handler returns ""
generate_cypher_query(natural_language_question, resp) ==
  [value |-> IF resp.raises THEN <<>>
             ELSE RemoveTrailingFence(
                    RemoveLeading(RemoveLeading(Strip(resp.content), sFenceCypher), sFence)),
   calls |-> <<QueryPrompt(natural_language_question)>>,
   raised |-> FALSE]

\* the queries the store is given in this model: two that read, and one
\* that does not parse
qCharacters == <<"MATCH (c:Character) RETURN c.name AS name">>
qScenes == <<"MATCH (s:Scene) RETURN s.title AS title">>
qUnclosed == <<"MATCH (c:Character RETURN c">>

\* session.run(cypher_query): [raised, rows], the rows as a set
RunQuery(N, cypher_query) ==
  IF cypher_query = qCharacters
  THEN [raised |-> FALSE, rows |-> {[name |-> n.props.name] : n \in {m \in N : m.label = "Character"}}]
  ELSE IF cypher_query = qScenes
  THEN [raised |-> FALSE, rows |-> {[title |-> n.props.title] : n \in {m \in N : m.label = "Scene"}}]
  ELSE [raised |-> TRUE, rows |-> {}]

\* the lists that hold the rows of a set in some order
RowLists(rows) ==
  {s \in [1..Cardinality(rows) -> rows] : \A i, j \in DOMAIN s : s[i] = s[j] => i = j}

\* execute_cypher_query: the list of rows, in the order the store gives
\* them (order is a list of all rows of the result); [] on an exception
execute_cypher_query(N, cypher_query, order) ==
  IF RunQuery(N, cypher_query).raised THEN <<>> ELSE order

\* str(row) of a one-column row, and str(results)
StrRow(row) ==
  LET k == CHOOSE c \in DOMAIN row : TRUE
  IN <<"{'", k, "': '">> \o row[k] \o <<"'}">>
RECURSIVE StrRows(_)
StrRows(results) ==
  IF results = <<>> THEN <<>>
  ELSE IF Len(results) = 1 THEN StrRow(results[1])
  ELSE StrRow(Head(results)) \o <<", ">> \o StrRows(Tail(results))
StrList(results) == <<"[">> \o StrRows(results) \o <<"]">>

\* the listing built when the second oracle call raises
\* variant: the loop stops after the first row
Enumerated_FirstOnly(results, i) ==
  IF i > 1 THEN <<>>
  ELSE Decimal(i) \o <<". ">> \o StrRow(results[i]) \o <<"\n">>

RECURSIVE Enumerated(_, _)
Enumerated(results, i) ==
  IF i > Len(results) THEN <<>>
  ELSE Decimal(i) \o <<". ">> \o StrRow(results[i]) \o <<"\n">> \o Enumerated(results, i + 1)
FallbackListing(results) ==
  <<"Found ">> \o Decimal(Len(results)) \o <<" results:\n">> \o Enumerated(results, 1)

sNoResults == <<"I didn't find any results for that question.">>
sNotUnderstood == <<"I couldn't understand that question. Try rephrasing it.">>

\* variant: the oracle is asked to format an empty result too
format_results_AlwaysAsk(results, question, resp) ==
  [value |-> IF resp.raises THEN FallbackListing(results) ELSE resp.content,
   calls |-> <<FormatPrompt(question, StrList(results))>>]

\* format_results: [value, calls]
format_results(results, question, resp) ==
  IF results = <<>> THEN [value |-> sNoResults, calls |-> <<>>]
  ELSE [value |-> IF resp.raises THEN FallbackListing(results) ELSE resp.content,
        calls |-> <<FormatPrompt(question, StrList(results))>>]

\* ask: [value, raised, executed, results, calls]; calls lists the oracle
\* calls made, executed tells whether a query was given to the store
ask(N, question, resp1, order, resp2) ==
  LET gen == generate_cypher_query(question, resp1)
      cypher_query == gen.value
  IN IF gen.raised
     THEN [value |-> NONE, raised |-> TRUE, executed |-> FALSE, results |-> <<>>,
           calls |-> gen.calls]
     ELSE IF cypher_query = <<>>
     THEN [value |-> sNotUnderstood, raised |-> FALSE, executed |-> FALSE,
           results |-> <<>>, calls |-> gen.calls]
     ELSE LET results == execute_cypher_query(N, cypher_query, order)
              fmt == format_results(results, question, resp2)
          IN [value |-> fmt.value, raised |-> FALSE, executed |-> TRUE,
              results |-> results, calls |-> gen.calls \o fmt.calls]

(***************************************************************************)
(* Inputs                                                                  *)
(***************************************************************************)
nAl == <<"A","l">>
nal == <<"a","l">>
nBo == <<"B","o">>
nGh == <<"G","h">>
tKNOWS == <<"K","N","O","W","S">>
tIN == <<"I","N">>
tBad == <<"I","S"," ","I","N">>

At(category) == <<"@">> \o category \o <<":">>
sPower == <<"p","o","w","e","r">>
sSceneMixed == <<"S","c","e","n","e">>

RECURSIVE Flatten(_)
Flatten(ss) == IF ss = <<>> THEN <<>> ELSE Head(ss) \o Flatten(Tail(ss))

SeqsUpTo(S, n) == UNION {[1..k -> S] : k \in 0..n}

\* texts of the tag-parser specification: up to MaxSegs segments
SegPool == {At(sCharacter), At(sSceneMixed), At(sPower), <<"@">>, <<":">>,
            nAl, nal, <<"1">>, <<" ">>}
ParseTexts == {Flatten(ss) : ss \in SeqsUpTo(SegPool, MaxSegs)}


\* oracle payloads: entity records and relationship records
cAlRich == [name |-> nAl, description |-> <<"engineer">>, age |-> 30,
            role |-> <<"protagonist">>, traits |-> << <<"curious">> >>]
cAlBare == [name |-> nAl]
calBare == [name |-> nal]
cBo == [name |-> nBo, role |-> <<"friend">>]
cNoName == [description |-> <<"nameless">>]
scBo == [title |-> nBo, summary |-> <<"meeting">>]
tgPow == [name |-> Lower(Title(sPower) \o <<":", " ">> \o Title(nal)),
          category |-> sPower, value |-> nal]

rAlBo == [from |-> nAl, to |-> nBo, type |-> tKNOWS, description |-> <<"friends">>]
rGhAl == [from |-> nGh, to |-> nAl, type |-> tKNOWS]
rBoAl == [from |-> nBo, to |-> nAl, type |-> tIN]
rNoType == [from |-> nAl, to |-> nBo]
rNoFrom == [to |-> nBo, type |-> tKNOWS]
rBadType == [from |-> nAl, to |-> nBo, type |-> tBad]

FullContent == <<"{", "ent", ",", "rel", "}">>
Response(ents, rels) ==
  [raises |-> FALSE, content |-> FullContent, entities |-> ents, relationships |-> rels]

\* responses of the extraction specification: every content of up to
\* MaxTokens tokens, or a failed call
ExtractPayloads == {
  [entities |-> [characters |-> <<cAlRich>>], relationships |-> <<rAlBo>>],
  [entities |-> EmptyDict, relationships |-> <<>>],
  [entities |-> [scenes |-> <<scBo>>], relationships |-> <<rAlBo, rBoAl>>] }
ExtractResponses ==
  {[raises |-> FALSE, content |-> c, entities |-> p.entities,
    relationships |-> p.relationships] :
      c \in SeqsUpTo(Tokens, MaxTokens), p \in ExtractPayloads}
  \cup {[raises |-> TRUE, content |-> <<>>, entities |-> EmptyDict, relationships |-> <<>>]}

\* inputs of the merge specification: texts of up to MaxInline markers and
\* well-formed responses over a pool of entity lists
MarkerPool == {At(sCharacter) \o nAl, At(sCharacter) \o nal, At(sCharacter) \o nBo,
               At(sSceneMixed) \o nBo, At(sStory) \o nBo, At(sPower) \o nal,
               At(Title(sPower)) \o nAl}
RECURSIVE JoinSp(_)
JoinSp(ss) == IF ss = <<>> THEN <<>>
              ELSE IF Len(ss) = 1 THEN ss[1]
              ELSE Head(ss) \o <<" ">> \o JoinSp(Tail(ss))
MergeTexts == {JoinSp(ss) : ss \in SeqsUpTo(MarkerPool, MaxInline)}

CharLists == {<<>>, <<cAlRich>>, <<calBare, cBo>>, <<cAlBare, calBare>>}
MergeEntities ==
  {[characters |-> cl] : cl \in CharLists}
  \cup {[characters |-> cl, scenes |-> <<scBo>>, tags |-> <<tgPow>>] : cl \in CharLists}
  \cup {EmptyDict, [stories |-> <<[title |-> Lower(nBo)]>>, tags |-> <<>>]}
MergeResponses ==
  {Response(e, <<>>) : e \in MergeEntities}
  \cup {Response([characters |-> <<cAlBare, cBo>>], <<rAlBo>>),
        Response([characters |-> <<cAlBare>>, scenes |-> <<scBo>>], <<rBoAl, rGhAl>>),
        Response([characters |-> <<cAlBare>>, stories |-> <<[title |-> nBo]>>], <<rAlBo>>)}


\* inputs of the pipeline specification: the text read and the oracle's answer
Texts == {<<" ">>, At(sCharacter) \o nal,
          At(sSceneMixed) \o nBo \o <<" ">> \o At(sPower) \o nal}
FailedCall == [raises |-> TRUE, content |-> <<>>, entities |-> EmptyDict,
               relationships |-> <<>>]
ProseOnly == [raises |-> FALSE, content |-> <<"prose">>, entities |-> EmptyDict,
              relationships |-> <<>>]
NoRelationships == [raises |-> FALSE, content |-> <<"prose", "{", "ent", "}">>,
                    entities |-> [characters |-> <<cAlRich>>], relationships |-> <<>>]
Input(content, resp) == [content |-> content, resp |-> resp]
IngestInputs == {
  Input(<<" ">>, Response([characters |-> <<cAlRich>>], <<rAlBo>>)),
  Input(At(sCharacter) \o nal,
        Response([characters |-> <<cAlBare>>, scenes |-> <<scBo>>], <<rBoAl, rGhAl>>)),
  Input(At(sSceneMixed) \o nBo \o <<" ">> \o At(sPower) \o nal, FailedCall),
  Input(<<" ">>, Response([characters |-> <<cBo, cNoName>>], <<rAlBo>>)),
  Input(At(sCharacter) \o nal, Response([characters |-> <<cAlBare>>], <<rNoType, rAlBo>>)),
  Input(At(sCharacter) \o nal, ProseOnly),
  Input(At(sCharacter) \o nBo, NoRelationships) }
FileInputs == IngestInputs \cup {Input(NoFile, FailedCall)}
\* relationship lists of a direct call: empty, one record, or a record that
\* fails followed by a complete one
CompleteRels == {rAlBo, rGhAl, rBoAl}
FailingRels == {rNoType, rNoFrom, rBadType}
RelLists == {<<>>} \cup {<<r>> : r \in CompleteRels \cup FailingRels}
              \cup {<<f, r>> : f \in FailingRels, r \in CompleteRels}
SourceFile == <<"draft.md">>
\* keywords of a search: the empty keyword, names, a description
Keywords == {<<>>, nal, nBo, <<"engineer">>}

\* file contents of the classification specification: up to MaxLines of
\* these lines
lDelim == <<"-", "-", "-", "\n">>
lTypeScene == <<"t", "y", "p", "e", ":", " ", "S", "c", "e", "n", "e", "\n">>
lTypeEmpty == <<"t", "y", "p", "e", ":", "\n">>
lNotes == <<"n", "o", "t", "e", "s", ":", " ">> \o <<"x", "\n">>
lPersonality == <<"P", "e", "r", "s", "o", "n", "a", "l", "i", "t", "y", ":", " ">> \o <<"brave and reckless", "\n">>
lSetting == <<"S", "e", "t", "t", "i", "n", "g", ":", " ">> \o <<"dusk", "\n">>
lProse == <<"prose", "\n">>
lBlank == <<"\n">>
LinePool == {lDelim, lTypeScene, lTypeEmpty, lNotes, lPersonality, lSetting, lProse, lBlank}
FileTexts == {Flatten(ls) : ls \in SeqsUpTo(LinePool, MaxLines)}

\* inputs of the organizer specification: file names, file contents, the
\* file systems a run starts from, and the oracle's answers
nFoo == <<"f", "o", "o", ".", "m", "d">>
nFoo1 == <<"f", "o", "o", "_", "1", ".", "m", "d">>
nBar == <<"b", "a", "r", ".", "m", "d">>
nNotes == <<"n", "o", "t", "e", "s", ".", "t", "x", "t">>
sPoem == <<"p", "o", "e", "m">>
cPers == lPersonality \o At(sCharacter) \o nal
cTitled == <<"#", " ", "M", "y", " ", "A", "l", "!", "\n">>
cTyped == <<"-", "-", "-", "\n", "t", "y", "p", "e", ":", " ", "S", "c", "e", "n", "e", "\n", "t", "i", "t", "l", "e", ":", " ", "\"", "B", "o", "\"", "\n", "-", "-", "-", "\n">> \o At(sSceneMixed) \o nBo
Absent == <<"<absent>">>

\* the file system with the given content (or Absent) at each of the paths
FileSystem(at) ==
  LET present == {p \in DOMAIN at : at[p] # Absent}
  IN [dirs |-> {"drafts"} \cup {p.dir : p \in present},
      files |-> [p \in present |-> at[p]]]

OrgFileSystems ==
  {FileSystem([p \in {Path("drafts", nFoo), Path("drafts", nBar), Path("drafts", nNotes),
                      Path("characters", nFoo), Path("characters", nFoo1)} |->
                CASE p = Path("drafts", nFoo) -> foo
                  [] p = Path("drafts", nBar) -> bar
                  [] p = Path("drafts", nNotes) -> txt
                  [] p = Path("characters", nFoo) -> old
                  [] p = Path("characters", nFoo1) -> old1]) :
     foo \in {Absent, cPers, cTitled, cTyped, Undecodable},
     bar \in {Absent, cPers, Undecodable},
     txt \in {cTitled},
     old \in {Absent, cPers},
     old1 \in {Absent, cTitled}}
  \cup {NoFS}

OrgResponses == {Response([characters |-> <<cAlBare>>], <<rAlBo>>),
                 Response([characters |-> <<cNoName>>], <<>>)}

\* the paths an operation is called with: a file that exists under one of
\* the initial names, or a draft that does not exist
FileArgs(F) ==
  {p \in DOMAIN F.files : p.name \in {nFoo, nFoo1, nBar, nNotes}}
    \cup {Path("drafts", nFoo1)}

\* the orders in which a glob may list a set of files
Orderings(S) ==
  {s \in [1..Cardinality(S) -> S] : \A i, j \in DOMAIN s : s[i] = s[j] => i = j}

\* inputs of the assistant specification: the graph asked about, the
\* question, and the oracle's answers to the two calls
AskEntities == {EmptyDict, [characters |-> <<cAlBare>>], [characters |-> <<cAlBare, cBo>>],
                [scenes |-> <<scBo>>], [characters |-> <<cAlRich>>, scenes |-> <<scBo>>]}
AskGraphs == {create_entities_in_neo4j({}, e, FALSE).nodes : e \in AskEntities}
Questions == {<<"Who is in my story?">>, <<"Which scenes are there?">>}
Answer(content) == [raises |-> FALSE, content |-> content]
NoAnswer == [raises |-> TRUE, content |-> <<>>]
QueryAnswers ==
  {NoAnswer, Answer(<<>>), Answer(qCharacters), Answer(qUnclosed),
   Answer(<<" ">> \o qScenes \o <<"\n">>),
   Answer(sFenceCypher \o <<"\n">> \o qScenes \o <<"\n">> \o sFence),
   Answer(sFence \o qCharacters \o <<" ">> \o sFence \o <<"\n">>),
   Answer(sFenceCypher \o <<"\n">> \o sFence)}
FormatAnswers == {NoAnswer, Answer(<<"Here is what I found.">>)}

(***************************************************************************)
(* State machine of the pipeline                                           *)
(***************************************************************************)
Status(r) == IF r.raised THEN "raised" ELSE "returned"

Init ==
  /\ nodes = {}
  /\ edges = EmptyBag
  /\ testing_mode \in BOOLEAN
  /\ track_sources \in BOOLEAN
  /\ current_source_file = NONE
  /\ fs = NoFS
  /\ call = [op |-> "__init__"]
  /\ ret = [status |-> "returned"]

\* c is the record of the invocation kept in call
IngestTextContentAs(content, resp, c) ==
  \E r \in {ingest_text_content(nodes, edges, content, resp, testing_mode)} :
  /\ Cardinality(r.nodes) <= MaxNodes
  /\ nodes' = r.nodes
  /\ edges' = r.edges
  /\ call' = c
  /\ ret' = [status |-> Status(r), value |-> r.value, opened |-> r.opened,
             closed |-> r.closed]
  /\ UNCHANGED <<testing_mode, track_sources, current_source_file, fs>>

IngestTextFileAs(content, resp, c) ==
  \E r \in {ingest_text_file(nodes, edges, content, resp, testing_mode)} :
  /\ Cardinality(r.nodes) <= MaxNodes
  /\ nodes' = r.nodes
  /\ edges' = r.edges
  /\ current_source_file' = SourceFile
  /\ call' = c
  /\ ret' = [status |-> Status(r), value |-> r.value, opened |-> r.opened,
             closed |-> r.closed]
  /\ UNCHANGED <<testing_mode, track_sources, fs>>

\* the specifications below end a behaviour with the operation they examine:
\* a direct call of create_relationships_in_neo4j, or a repeated ingestion
Examined == call.op = "create_relationships_in_neo4j" \/ "run" \in DOMAIN call

IngestTextContent(content, resp) ==
  /\ ~Examined
  /\ IngestTextContentAs(content, resp, [op |-> "ingest_text_content"])

IngestTextFile(content, resp) ==
  /\ ~Examined
  /\ IngestTextFileAs(content, resp, [op |-> "ingest_text_file"])

ReingestFile(content, resp) ==
  \E r \in {reingest_file(nodes, edges, content, resp, testing_mode)} :
  /\ ~Examined
  /\ Cardinality(r.nodes) <= MaxNodes
  /\ nodes' = r.nodes
  /\ edges' = r.edges
  /\ current_source_file' = SourceFile
  /\ testing_mode' = r.testing_mode
  /\ call' = [op |-> "reingest_file"]
  /\ ret' = [status |-> Status(r), steps |-> r.steps, opened |-> r.opened,
             closed |-> r.closed]
  /\ UNCHANGED <<track_sources, fs>>

Next ==
  \/ \E in \in IngestInputs : IngestTextContent(in.content, in.resp)
  \/ \E in \in FileInputs : IngestTextFile(in.content, in.resp)
  \/ \E in \in FileInputs : ReingestFile(in.content, in.resp)

Spec == Init /\ [][Next]_vars

(***************************************************************************)
(* A direct call of create_relationships_in_neo4j on a graph built by      *)
(* ingestions; the call is the last operation of the behaviour             *)
(***************************************************************************)
CreateRelationships(rels) ==
  \E r \in {create_relationships_in_neo4j(nodes, edges, rels)} :
  /\ ~Examined
  /\ nodes' = r.nodes
  /\ edges' = r.edges
  /\ call' = [op |-> "create_relationships_in_neo4j", relationships |-> rels]
  /\ ret' = [status |-> Status(r), submitted |-> r.submitted, opened |-> r.opened,
             closed |-> r.closed]
  /\ UNCHANGED <<testing_mode, track_sources, current_source_file, fs>>

NextRels ==
  \/ Next
  \/ \E rels \in RelLists : CreateRelationships(rels)

\* the pipeline as its callers construct it: TextIngestionPipeline()
InitDefault == Init /\ ~testing_mode /\ track_sources

SpecRels == InitDefault /\ [][NextRels]_vars

(***************************************************************************)
(* The same ingestion run twice in a row on a graph built by ingestions    *)
(***************************************************************************)
RunInputs == {
  Input(<<" ">>, Response([characters |-> <<cAlRich>>], <<rAlBo>>)),
  Input(At(sCharacter) \o nal,
        Response([characters |-> <<cAlBare>>, scenes |-> <<scBo>>], <<rBoAl, rGhAl>>)),
  Input(<<" ">>, Response([characters |-> <<cBo, cNoName>>], <<rAlBo>>)),
  Input(At(sCharacter) \o nal, Response([characters |-> <<cAlBare>>], <<rNoType, rAlBo>>)),
  Input(At(sPower) \o nal \o <<" ">> \o At(sCharacter) \o nAl,
        Response([characters |-> <<calBare>>, tags |-> <<tgPow>>], <<rAlBo, rBadType>>)) }

Run(op, in, k) ==
  IF op = "ingest_text_content"
  THEN IngestTextContentAs(in.content, in.resp, [op |-> op, in |-> in, run |-> k])
  ELSE IngestTextFileAs(in.content, in.resp, [op |-> op, in |-> in, run |-> k])

FirstRun(op, in) == ~Examined /\ Run(op, in, 1)

SecondRun == "run" \in DOMAIN call /\ call.run = 1 /\ Run(call.op, call.in, 2)

NextIdem ==
  \/ Next
  \/ \E op \in {"ingest_text_content", "ingest_text_file"}, in \in RunInputs : FirstRun(op, in)
  \/ SecondRun

InitTracking == Init /\ track_sources

SpecIdem == InitTracking /\ [][NextIdem]_vars

(***************************************************************************)
(* Specifications of the pure components: the input is drawn by the        *)
(* initial state and the component is applied to it once                   *)
(***************************************************************************)
Pending == [status |-> "pending", value |-> NONE]

InitPure(calls) ==
  /\ nodes = {}
  /\ edges = EmptyBag
  /\ testing_mode = FALSE
  /\ track_sources = TRUE
  /\ current_source_file = NONE
  /\ fs = NoFS
  /\ call \in calls
  /\ ret = Pending

ParseTags ==
  /\ call.op = "parse_tags" /\ ret.status = "pending"
  /\ ret' = [status |-> "returned", value |-> parse_tags(call.text)]
  /\ UNCHANGED <<nodes, edges, testing_mode, track_sources, current_source_file, fs, call>>

InitParse == InitPure({[op |-> "parse_tags", text |-> t] : t \in ParseTexts})
SpecParse == InitParse /\ [][ParseTags]_vars

ExtractEntitiesAndRelationships ==
  /\ call.op = "extract_entities_and_relationships" /\ ret.status = "pending"
  /\ LET r == extract_entities_and_relationships(call.resp)
     IN ret' = [status |-> Status(r), value |-> r.value]
  /\ UNCHANGED <<nodes, edges, testing_mode, track_sources, current_source_file, fs, call>>

InitExtract == InitPure({[op |-> "extract_entities_and_relationships", resp |-> r] :
                           r \in ExtractResponses})
SpecExtract == InitExtract /\ [][ExtractEntitiesAndRelationships]_vars

\* one ingestion of a text on an empty graph
IngestOnce ==
  /\ call.op = "ingest_text_content" /\ ret.status = "pending"
  /\ LET r == ingest_text_content(nodes, edges, call.content, call.resp, testing_mode)
     IN /\ nodes' = r.nodes
        /\ edges' = r.edges
        /\ ret' = [status |-> Status(r), value |-> r.value]
  /\ UNCHANGED <<testing_mode, track_sources, current_source_file, fs, call>>

InitMerge == InitPure({[op |-> "ingest_text_content", content |-> t, resp |-> r] :
                         t \in MergeTexts, r \in MergeResponses})
SpecMerge == InitMerge /\ [][IngestOnce]_vars

\* detect_content_type applied to the content of a file, and the directory
\* move_and_organize selects for the result
DetectContentType ==
  /\ call.op = "detect_content_type" /\ ret.status = "pending"
  /\ \E t \in {detect_content_type(call.content)} :
       ret' = [status |-> "returned", value |-> t, dir |-> target_dir(t)]
  /\ UNCHANGED <<nodes, edges, testing_mode, track_sources, current_source_file, fs, call>>

InitClassify == InitPure({[op |-> "detect_content_type", content |-> t] : t \in FileTexts})
SpecClassify == InitClassify /\ [][DetectContentType]_vars

(***************************************************************************)
(* State machine of the Content Organizer: the operations of an organizer  *)
(* whose pipeline has the default settings, and runs of main()             *)
(***************************************************************************)
InitOrg ==
  /\ nodes = {}
  /\ edges = EmptyBag
  /\ testing_mode = FALSE
  /\ track_sources = TRUE
  /\ current_source_file = NONE
  /\ fs \in OrgFileSystems
  /\ call = [op |-> "__init__"]
  /\ ret = [status |-> "returned"]

\* a behaviour of the organizer specification is one call of an organizer
\* method or one run of main(); a run of main() that processes files may be
\* followed by a dry run
OrgExamined ==
  \/ call.op \in {"move_and_organize", "process_draft", "process_all_drafts"}
  \/ call.op = "main" /\ call.args.dry_run

MoveAndOrganize(file_path, content_type, new_filename) ==
  /\ call.op = "__init__"
  /\ \E r \in {move_and_organize(fs, file_path, content_type, new_filename)} :
       /\ fs' = r.fs
       /\ call' = [op |-> "move_and_organize", file_path |-> file_path,
                   content_type |-> content_type, new_filename |-> new_filename]
       /\ ret' = [status |-> Status(r), value |-> r.value]
       /\ UNCHANGED <<nodes, edges, testing_mode, track_sources, current_source_file>>

ProcessDraft(file_path, resp) ==
  /\ call.op = "__init__"
  /\ \E r \in {process_draft(fs, nodes, edges, current_source_file, file_path, resp,
                          testing_mode)} :
       /\ Cardinality(r.nodes) <= MaxNodes
       /\ fs' = r.fs
       /\ nodes' = r.nodes
       /\ edges' = r.edges
       /\ current_source_file' = r.source_file
       /\ call' = [op |-> "process_draft", file_path |-> file_path]
       /\ ret' = [status |-> Status(r), value |-> r.value, oracle_calls |-> r.oracle_calls]
       /\ UNCHANGED <<testing_mode, track_sources>>

ProcessAllDrafts(draft_files, resps) ==
  /\ call.op = "__init__"
  /\ \E r \in {process_all_drafts(fs, nodes, edges, current_source_file, draft_files, resps,
                               testing_mode)} :
       /\ Cardinality(r.nodes) <= MaxNodes
       /\ fs' = r.fs
       /\ nodes' = r.nodes
       /\ edges' = r.edges
       /\ current_source_file' = r.source_file
       /\ call' = [op |-> "process_all_drafts"]
       /\ ret' = [status |-> Status(r), value |-> r.value, oracle_calls |-> r.oracle_calls]
       /\ UNCHANGED <<testing_mode, track_sources>>

Main(args, draft_files, resps) ==
  /\ IF args.dry_run THEN ~OrgExamined ELSE call.op = "__init__"
  /\ \E r \in {main(fs, nodes, edges, args, draft_files, resps)} :
       /\ Cardinality(r.nodes) <= MaxNodes
       /\ fs' = r.fs
       /\ nodes' = r.nodes
       /\ edges' = r.edges
       /\ testing_mode' = FALSE
       /\ track_sources' = TRUE
       /\ current_source_file' = r.source_file
       /\ call' = [op |-> "main", args |-> args]
       /\ ret' = [status |-> Status(r), results |-> r.results, summary |-> r.summary,
                  printed |-> r.printed, oracle_calls |-> r.oracle_calls]

NextOrg ==
  \/ \E file_path \in FileArgs(fs), content_type \in {sCharacter, sStory, sPoem},
        new_filename \in {nFoo, nFoo1} :
       MoveAndOrganize(file_path, content_type, new_filename)
  \/ \E file_path \in FileArgs(fs), resp \in OrgResponses : ProcessDraft(file_path, resp)
  \/ \E draft_files \in Orderings(DraftFiles(fs)) :
       \E resps \in [DraftFiles(fs) -> OrgResponses] : ProcessAllDrafts(draft_files, resps)
  \/ \E file \in FileArgs(fs) \cup {NONE}, dry_run \in BOOLEAN :
       \E draft_files \in Orderings(DraftFiles(fs)) :
         \E resps \in [IF file = NONE THEN DraftFiles(fs) ELSE {file} ->
                         IF dry_run THEN {Response(EmptyDict, <<>>)} ELSE OrgResponses] :
           Main([file |-> file, dry_run |-> dry_run], draft_files, resps)

SpecOrg == InitOrg /\ [][NextOrg]_vars

(***************************************************************************)
(* State machine of the Query Assistant: one question asked about a graph  *)
(* that ingestion has written                                              *)
(***************************************************************************)
InitAsk ==
  /\ nodes \in AskGraphs
  /\ edges = EmptyBag
  /\ testing_mode = FALSE
  /\ track_sources = TRUE
  /\ current_source_file = NONE
  /\ fs = NoFS
  /\ call \in {[op |-> "ask", question |-> q, resp1 |-> r1, resp2 |-> r2] :
                 q \in Questions, r1 \in QueryAnswers, r2 \in FormatAnswers}
  /\ ret = Pending

\* ask(question); order is the list in which the store gives the rows of
\* the generated query
Ask(order) ==
  /\ call.op = "ask" /\ ret.status = "pending"
  /\ \E r \in {ask(nodes, call.question, call.resp1, order, call.resp2)} :
       ret' = [status |-> Status(r), value |-> r.value, executed |-> r.executed,
               results |-> r.results, calls |-> r.calls]
  /\ UNCHANGED <<nodes, edges, testing_mode, track_sources, current_source_file, fs, call>>

NextAsk ==
  \E order \in RowLists(RunQuery(nodes,
                                 generate_cypher_query(call.question, call.resp1).value).rows) :
    Ask(order)

SpecAsk == InitAsk /\ [][NextAsk]_vars

(***************************************************************************)
(* Properties                                                              *)
(***************************************************************************)
Returned == ret.status = "returned"

\* the entity bucket a category names, ignoring case; "tags" for any other
BucketOfCategory(category) ==
  LET c == Lower(category) IN
  CASE c = sCharacter -> "characters"
    [] c = sLocation -> "locations"
    [] c = sScene -> "scenes"
    [] c = sTheme -> "themes"
    [] c = sStory -> "stories"
    [] OTHER -> "tags"

\* C4: every @category:value marker found in the text yields exactly one
\* record: an entity of the type the category names (ignoring case) whose
\* natural key is the value, or else a Tag with that category and value.
\* Each bucket holds, in order, one record per marker of its kind.
TagClassification ==
  (call.op = "parse_tags" /\ Returned) =>
    LET markers == FindAll(call.text, 1) IN
    \A b \in ParsedBuckets :
      LET mine == SelectSeq(markers, LAMBDA m : BucketOfCategory(m.category) = b)
          recs == ret.value[b]
      IN /\ Len(recs) = Len(mine)
         /\ \A k \in DOMAIN recs :
              IF b = "tags"
              THEN recs[k].category = mine[k].category /\ recs[k].value = mine[k].value
              ELSE recs[k][MergeKey(b)] = mine[k].value

\* '@power:al@character:Al' gives one Tag (power, al) and one Character (Al)
TagClassificationWitness ==
  /\ call.op = "parse_tags" /\ Returned
  /\ call.text = At(sPower) \o nal \o At(sCharacter) \o nAl
  /\ Len(ret.value.tags) = 1 /\ ret.value.tags[1].category = sPower
  /\ ret.value.tags[1].value = nal
  /\ Len(ret.value.characters) = 1 /\ ret.value.characters[1].name = nAl
  /\ \A b \in ParsedBuckets \ {"tags", "characters"} : ret.value[b] = <<>>

\* the oracle outcomes that are failures: the call raises, the content has
\* no brace-delimited part, or that part is not valid JSON
ExtractionFailure(resp) ==
  \/ resp.raises
  \/ ~JsonLoadsMatch(resp).found
  \/ JsonLoadsMatch(resp).error

\* C5: extraction never raises to its caller, and on every failure outcome
\* of the oracle call it returns exactly {"entities": {}, "relationships": []}.
ExtractionFailsSoft ==
  (call.op = "extract_entities_and_relationships" /\ ret.status # "pending") =>
    /\ Returned
    /\ ExtractionFailure(call.resp) => ret.value = EMPTY_RESULT

\* a response whose braces enclose prose: the empty result is returned
ExtractionFailsSoftWitness ==
  /\ call.op = "extract_entities_and_relationships" /\ Returned
  /\ ~call.resp.raises
  /\ call.resp.content = <<"prose", "{", "prose", "}">>
  /\ ret.value = EMPTY_RESULT

\* C6: the value returned by extraction always has an 'entities' key and a
\* 'relationships' key.
ExtractionResultShape ==
  (call.op = "extract_entities_and_relationships" /\ Returned) =>
    {"entities", "relationships"} \subseteq DOMAIN ret.value

\* lower-cased natural keys of the records of a list
LowerKeys(recs, b) == {Lower(Get(recs[i], MergeKey(b), <<>>)) : i \in DOMAIN recs}

\* C3: in the result returned by an ingestion, every bucket starts with the
\* oracle's records, unchanged and in order, and each record after them is an
\* inline-tag record whose lower-cased natural key differs from that of every
\* record before it in the bucket.
InlineOracleMerge ==
  (call.op = "ingest_text_content" /\ Returned) =>
    \A b \in ParsedBuckets :
      LET oracle == Get(call.resp.entities, b, <<>>)
          inline == parse_tags(call.content)[b]
          merged == Get(ret.value.entities, b, <<>>)
      IN /\ Len(merged) >= Len(oracle)
         /\ SubSeq(merged, 1, Len(oracle)) = oracle
         /\ \A j \in (Len(oracle) + 1)..Len(merged) :
              /\ \E i \in DOMAIN inline : inline[i] = merged[j]
              /\ Lower(merged[j][MergeKey(b)]) \notin LowerKeys(SubSeq(merged, 1, j - 1), b)

\* oracle {"name": "Al", ...} plus inline @character:al: one entry, the oracle's
InlineOracleMergeWitness ==
  /\ call.op = "ingest_text_content" /\ Returned
  /\ call.content = At(sCharacter) \o nal
  /\ call.resp.entities = [characters |-> <<cAlRich>>]
  /\ ret.value.entities.characters = <<cAlRich>>

\* natural key of a node: the property its label is merged on
KeyAttr(label) ==
  EntitySchema[CHOOSE i \in DOMAIN EntitySchema : EntitySchema[i].label = label].key
NaturalKey(n) == n.props[KeyAttr(n.label)]
NodeKey(n) == <<n.label, NaturalKey(n)>>
EdgeKey(e) == <<e.src, e.dst, e.type>>

\* number of nodes per (entity type, natural key); number of edges per
\* (from, to, type)
NodeKeyBag(N) ==
  [k \in {NodeKey(n) : n \in N} |-> Cardinality({n \in N : NodeKey(n) = k})]
EdgeKeyBag(E) ==
  [k \in {EdgeKey(e) : e \in BagToSet(E)} |->
     BagCardinality([e \in {x \in BagToSet(E) : EdgeKey(x) = k} |-> E[e]])]

SecondRunDone == "run" \in DOMAIN call /\ call.run = 2

\* C1: running the same ingestion (same text, same oracle output, same mode)
\* a second time leaves the number of nodes per (entity type, natural key)
\* and the number of edges per (from, to, type) as the first run left them.
UpsertIdempotence ==
  [][SecondRunDone' =>
       /\ NodeKeyBag(nodes') = NodeKeyBag(nodes)
       /\ EdgeKeyBag(edges') = EdgeKeyBag(edges)]_vars

\* a second run that returned, on a graph with nodes and edges
UpsertIdempotenceWitness ==
  /\ SecondRunDone /\ Returned
  /\ call.in.resp.relationships # <<>>
  /\ \E n \in nodes : n.label = "Character" /\ NaturalKey(n) = nAl
  /\ edges # EmptyBag

\* C2: the graph never holds two nodes of the same entity type with the same
\* natural key.
NaturalKeyUnique ==
  \A n1, n2 \in nodes : NodeKey(n1) = NodeKey(n2) => n1 = n2

\* several ingestions have run: two Characters whose names differ in case
\* only, and a node of another type
NaturalKeyUniqueWitness ==
  /\ \E n1, n2 \in nodes :
       /\ n1.label = "Character" /\ n2.label = "Character"
       /\ NaturalKey(n1) = nAl /\ NaturalKey(n2) = nal
  /\ \E n3 \in nodes : n3.label = "Scene" /\ NaturalKey(n3) = nBo

RelCall == call.op = "create_relationships_in_neo4j"
Named(N, id, s) ==
  \E n \in N : n.id = id /\ (HasProp(n, "name", s) \/ HasProp(n, "title", s))
EdgeKeys(E) == {EdgeKey(e) : e \in BagToSet(E)}

\* C7: every edge that create_relationships_in_neo4j creates goes from a node
\* whose name or title is the 'from' of one of the records to a node whose
\* name or title is the 'to' of that record, with the record's type; a record
\* with an endpoint that matches no node creates no edge.
RelationshipEndpoints ==
  [][RelCall' =>
       \A k \in EdgeKeys(edges') \ EdgeKeys(edges) :
         \E i \in DOMAIN call'.relationships :
           LET rel == call'.relationships[i] IN
           /\ {"from", "to", "type"} \subseteq DOMAIN rel
           /\ rel.type = k[3]
           /\ Named(nodes, k[1], rel.from)
           /\ Named(nodes, k[2], rel.to)]_vars

RelationshipFailureIsolation ==
  RelCall =>
    /\ Returned
    /\ \A i \in DOMAIN call.relationships :
         {"type", "from", "to"} \subseteq DOMAIN call.relationships[i] => i \in ret.submitted

\* C10: reingest_file ingests in test mode, sweeps the test-marked nodes,
\* ingests in normal mode and returns; no node then carries the test marker.
ReingestSequence ==
  call.op = "reingest_file" =>
    /\ Returned
    /\ ret.steps = <<"ingest_text_file(test)", "cleanup_test_entities",
                     "ingest_text_file(normal)">>
    /\ \A n \in nodes : "_test_marker" \notin DOMAIN n.props

TestRun == call.op = "reingest_file" \/ (testing_mode /\ call.op # "__init__")
NodeIds(N) == {n.id : n \in N}

\* C11: every node an ingestion run creates or updates while testing_mode is
\* on carries the test marker, and once reingest_file has run its cleanup
\* sweep no entity created by its trial ingestion is returned by
\* search_by_keyword, whatever the keyword.
TestModeCleanup ==
  [][/\ TestRun' => \A n \in nodes' \ nodes : HasProp(n, "_test_marker", TRUE)
     /\ call'.op = "reingest_file" =>
          \A keyword \in Keywords :
            \A n \in SearchedNodes(nodes', keyword) : n.id \in NodeIds(nodes)]_vars

\* entity-type buckets of a merged result, with the node type and the natural
\* key of each
BucketTypes == <<
  [bucket |-> "characters", label |-> "Character", key |-> "name"],
  [bucket |-> "locations", label |-> "Location", key |-> "name"],
  [bucket |-> "scenes", label |-> "Scene", key |-> "title"],
  [bucket |-> "stories", label |-> "Story", key |-> "title"],
  [bucket |-> "themes", label |-> "Theme", key |-> "name"],
  [bucket |-> "plot_points", label |-> "PlotPoint", key |-> "title"],
  [bucket |-> "tags", label |-> "Tag", key |-> "name"] >>

Persisted(N, t, rec) ==
  \E n \in N : n.label = t.label /\ t.key \in DOMAIN rec /\ HasProp(n, t.key, rec[t.key])

PersistedIn(types) ==
  (call.op = "ingest_text_content" /\ Returned) =>
    \A k \in types :
      LET t == BucketTypes[k]
          recs == Get(ret.value.entities, t.bucket, <<>>)
      IN \A i \in DOMAIN recs : Persisted(nodes, t, recs[i])

\* C12: after an ingestion that returns, for every record of every bucket of
\* the merged result (characters, locations, scenes, stories, themes,
\* plot_points, tags) the graph holds a node of that type with the record's
\* natural key.
MergedRecordsPersisted == PersistedIn(DOMAIN BucketTypes)

\* the test fields of node n are those its previous version had (none for a
\* node that did not exist)
TestFieldsKept(n, before) ==
  LET old == {m \in before : m.id = n.id}
  IN \A f \in TestFields :
       f \in DOMAIN n.props => \E m \in old : f \in DOMAIN m.props

\* C13: when track_sources is on, every node that an ingestion of a file
\* creates or changes carries _source_file set to the path of that file; and
\* an upsert sets the test marker and the test timestamp in test mode only.
ProvenanceStamping ==
  [][/\ (call'.op = "ingest_text_file" /\ track_sources) =>
          \A n \in nodes' \ nodes : HasProp(n, "_source_file", current_source_file')
     /\ ~TestRun' => \A n \in nodes' : TestFieldsKept(n, nodes)]_vars


\* the lines of a text: the parts between newlines
RECURSIVE SplitLines(_, _)
SplitLines(s, cur) ==
  IF s = <<>> THEN <<cur>>
  ELSE IF Head(s) = "\n" THEN <<cur>> \o SplitLines(Tail(s), <<>>)
  ELSE SplitLines(Tail(s), Append(cur, Head(s)))

\* a line --- with nothing but blanks after it
IsDelimiter(line) ==
  /\ Len(line) >= 3 /\ SubSeq(line, 1, 3) = <<"-", "-", "-">>
  /\ \A i \in 4..Len(line) : line[i] = " "

IsBlank(line) == \A i \in DOMAIN line : line[i] = " "

\* the first line after the opening delimiter that is not blank (one past
\* the last line when all are blank)
FirstLine(lines) ==
  LET K == {k \in 2..Len(lines) : ~IsBlank(lines[k])}
  IN IF K = {} THEN Len(lines) + 1 ELSE Min(K)

\* the index of the line that closes a leading frontmatter block (0 when the
\* text has none): the first line is a delimiter, blank lines after it are
\* skipped, and the closing line is the first delimiter, ending with a
\* newline, that comes after a line of the block; when there is none, a
\* delimiter that directly follows the blank lines closes a blank block
ClosingLine(lines) ==
  LET f == FirstLine(lines)
      J == {j \in (f + 1)..(Len(lines) - 1) : IsDelimiter(lines[j])}
  IN IF ~IsDelimiter(lines[1]) THEN 0
     ELSE IF J # {} THEN Min(J)
     ELSE IF 3 <= f /\ f <= Len(lines) - 1 /\ IsDelimiter(lines[f]) THEN f
     ELSE 0

RECURSIVE JoinLines(_)
JoinLines(ls) ==
  IF ls = <<>> THEN <<>>
  ELSE IF Len(ls) = 1 THEN ls[1]
  ELSE Head(ls) \o <<"\n">> \o JoinLines(Tail(ls))

\* the text of the block's lines
FrontmatterOf(content) ==
  LET lines == SplitLines(content, <<>>)
  IN JoinLines(SubSeq(lines, Min({FirstLine(lines), ClosingLine(lines) - 1}),
                      ClosingLine(lines) - 1))

\* w is the word that follows the key at position i of text fm, with only
\* whitespace between
WordAfterKey(fm, key, i, w) ==
  /\ i + Len(key) - 1 <= Len(fm) /\ SubSeq(fm, i, i + Len(key) - 1) = key
  /\ \E j \in (i + Len(key))..Len(fm) :
       /\ \A k \in (i + Len(key))..(j - 1) : IsSpace(fm[k])
       /\ j + Len(w) - 1 <= Len(fm) /\ SubSeq(fm, j, j + Len(w) - 1) = w
       /\ j + Len(w) > Len(fm) \/ ~IsWordChar(fm[j + Len(w)])

Words(fm) ==
  {SubSeq(fm, a, b) : <<a, b>> \in
     {p \in (DOMAIN fm) \X (DOMAIN fm) : p[1] <= p[2] /\ \A k \in p[1]..p[2] : IsWordChar(fm[k])}}

\* the values of the type field: for the first 'type:' of the block that a
\* word follows, that word
TypeValues(content) ==
  LET fm == FrontmatterOf(content)
      key == <<"t", "y", "p", "e", ":">>
      at == {i \in DOMAIN fm : \E w \in Words(fm) : WordAfterKey(fm, key, i, w)}
  IN IF ClosingLine(SplitLines(content, <<>>)) = 0 \/ at = {} THEN {}
     ELSE {w \in Words(fm) : WordAfterKey(fm, key, Min(at), w)}

\* a keyword of category k occurs in the text, ignoring case
Occurs(content, k) ==
  \E w \in DOMAIN Indicators[k].words : Contains(Lower(content), Indicators[k].words[w])

\* the category the keywords give: the first, in the order character,
\* location, scene, story, worldbuilding, theme, research, one of whose
\* keywords occurs; story when none does
ByKeywords(content, t) ==
  \/ \E k \in DOMAIN Indicators :
       /\ t = Indicators[k].type
       /\ Occurs(content, k)
       /\ \A j \in 1..(k - 1) : ~Occurs(content, j)
  \/ t = sStory /\ \A k \in DOMAIN Indicators : ~Occurs(content, k)

Classified == call.op = "detect_content_type" /\ Returned

HasPersonalityLine(content) ==
  \E i \in DOMAIN SplitLines(content, <<>>) :
    SplitLines(content, <<>>)[i] = SubSeq(lPersonality, 1, Len(lPersonality) - 1)

\* C14 as stated: the type field's value is returned as it is written.
ContentClassificationVerbatim ==
  Classified =>
    /\ TypeValues(call.content) # {} => ret.value \in TypeValues(call.content)
    /\ TypeValues(call.content) = {} => ByKeywords(call.content, ret.value)
    /\ (HasPersonalityLine(call.content) /\ TypeValues(call.content) = {}) =>
         ret.value = sCharacter /\ ret.dir = "characters"

\* C14: detect_content_type returns, lower-cased, the first word of the
\* 'type:' field of the leading frontmatter block when the file has one;
\* otherwise the first category, in the order character, location, scene,
\* story, worldbuilding, theme, research, one of whose keywords occurs in the
\* content (ignoring case), and story when none occurs.  A file with the line
\* 'Personality: brave and reckless' and no frontmatter type is a character
\* file and goes under the characters directory.
ContentClassification ==
  Classified =>
    /\ TypeValues(call.content) # {} =>
         ret.value \in {Lower(w) : w \in TypeValues(call.content)}
    /\ TypeValues(call.content) = {} => ByKeywords(call.content, ret.value)
    /\ (HasPersonalityLine(call.content) /\ TypeValues(call.content) = {}) =>
         ret.value = sCharacter /\ ret.dir = "characters"

\* a block without a type field, then a setting line and the personality line
ContentClassificationWitness ==
  /\ Classified
  /\ call.content = lDelim \o lNotes \o lDelim \o lPersonality
  /\ ret.value = sCharacter /\ ret.dir = "characters"


\* the files of a directory
FilesIn(F, dir) == {p \in DOMAIN F.files : p.dir = dir}

\* C15: a move_and_organize that returns has put the content of the moved
\* file under the returned path of the directory of the content type, which
\* named no file before the move; the files the directory held before the
\* move (the moved file leaves its place, as in a move) are still there with
\* their content; and when the requested name foo.md is taken and foo_1.md
\* is not, the returned name is foo_1.md
NoOverwriteOnCollision ==
  [][(call'.op = "move_and_organize" /\ ret'.status = "returned") =>
       LET dir == target_dir(call'.content_type)
           src == call'.file_path
           dst == ret'.value
       IN /\ dst.dir = dir
          /\ dst \notin DOMAIN fs.files
          /\ dst \in DOMAIN fs'.files
          /\ fs'.files[dst] = fs.files[src]
          /\ \A p \in FilesIn(fs, dir) \ {src} :
               p \in DOMAIN fs'.files /\ fs'.files[p] = fs.files[p]
          /\ (/\ Path(dir, call'.new_filename) \in DOMAIN fs.files
              /\ call'.new_filename = nFoo
              /\ Path(dir, nFoo1) \notin DOMAIN fs.files)
               => dst = Path(dir, nFoo1)]_vars

\* a draft was moved to characters/ under the name foo.md, which was taken
\* there while foo_1.md was not, and is stored as foo_1.md next to it
NoOverwriteOnCollisionWitness ==
  /\ call.op = "move_and_organize" /\ Returned
  /\ call.file_path.dir = "drafts"
  /\ call.new_filename = nFoo
  /\ ret.value = Path("characters", nFoo1)
  /\ Path("characters", nFoo) \in DOMAIN fs.files
  /\ fs.files[Path("characters", nFoo)] # fs.files[ret.value]

\* the entries of a result list that are about the file p
EntriesOf(results, p) == {i \in DOMAIN results : results[i].original_path = p}

\* C16: process_all_drafts returns, and its list has exactly one entry for
\* each *.md file of the drafts directory and no other entry; the entry of a
\* file whose processing raises (one that cannot be read) holds the original
\* path and the error message and nothing else; every other file, whether
\* it comes before or after such a file, is processed: its entry has the new
\* path, and the file has left the drafts directory for that path
BatchIsolation ==
  [][call'.op = "process_all_drafts" =>
       /\ ret'.status = "returned"
       /\ Len(ret'.value) = Cardinality(DraftFiles(fs))
       /\ \A p \in DraftFiles(fs) :
            \E i \in DOMAIN ret'.value :
              /\ EntriesOf(ret'.value, p) = {i}
              /\ IF ReadFile(fs, p).raised
                 THEN /\ ret'.value[i] = [original_path |-> p, error |-> ReadFile(fs, p).error]
                      /\ p \in DOMAIN fs'.files
                 ELSE /\ DOMAIN ret'.value[i] = {"original_path", "new_path", "content_type",
                                                 "filename", "ingestion_result"}
                      /\ p \notin DOMAIN fs'.files
                      /\ ret'.value[i].new_path \in DOMAIN fs'.files
                      /\ fs'.files[ret'.value[i].new_path] = fs.files[p]]_vars

\* a batch of two drafts in which the first file raised and the second was
\* processed after it
BatchIsolationWitness ==
  /\ call.op = "process_all_drafts" /\ Returned
  /\ Len(ret.value) = 2
  /\ DOMAIN ret.value[1] = {"original_path", "error"}
  /\ "new_path" \in DOMAIN ret.value[2]
  /\ ret.value[2].new_path \in DOMAIN fs.files

\* the result list of a batch: of process_all_drafts, or of a run of main()
\* that processes files
BatchResults ==
  IF call.op = "process_all_drafts" /\ Returned THEN ret.value
  ELSE IF call.op = "main" /\ Returned THEN ret.results
  ELSE <<>>

\* the entries of a batch whose ingestion ended in an exception:
\* ingest_text_file gave None
IngestionFailed(results) ==
  {i \in DOMAIN results : "ingestion_result" \in DOMAIN results[i]
                            /\ results[i].ingestion_result = NONE}

\* C17: in the results of a batch, the entry of a file whose ingestion ended
\* in an exception records the error, and the summary of main() counts as
\* successfully processed only the files that were ingested
IngestionFailureRecorded ==
  /\ \A i \in IngestionFailed(BatchResults) : "error" \in DOMAIN BatchResults[i]
  /\ (call.op = "main" /\ Returned) =>
       ret.summary.successful = Len(BatchResults) - ret.summary.failed
                                  - Cardinality(IngestionFailed(BatchResults))

\* C18: a run of main() with --dry-run, with or without --file, leaves the
\* files and directories and the graph as they were, processes no file and
\* makes no oracle call
DryRunNoEffect ==
  [][(call'.op = "main" /\ call'.args.dry_run) =>
       /\ fs' = fs
       /\ nodes' = nodes
       /\ edges' = edges
       /\ ret'.oracle_calls = 0
       /\ ret'.results = <<>>]_vars

\* a dry run over all drafts that reported a draft, on a graph that an
\* earlier run had filled
DryRunNoEffectWitness ==
  /\ call.op = "main" /\ call.args.dry_run /\ Returned
  /\ call.args.file = NONE
  /\ Len(ret.printed) >= 1
  /\ DraftFiles(fs) # {}
  /\ nodes # {}


\* C19: no exception leaves the batch entry point: a run of main(), over all
\* drafts or over a single --file, with or without --dry-run, returns
NoUnhandledException == call.op = "main" => Returned

\* C20: when ask has executed the generated query, then if the execution
\* gave no row (the query matched nothing, or failed) the answer is the fixed
\* "no results" message and the only oracle call made is the one that
\* generated the query; and if it gave rows, exactly one more oracle call
\* was made, whose prompt holds the question and the text of those rows
AskShortCircuit ==
  (call.op = "ask" /\ Returned /\ ret.executed) =>
    /\ ret.calls[1] = QueryPrompt(call.question)
    /\ Range(ret.results) =
         RunQuery(nodes, generate_cypher_query(call.question, call.resp1).value).rows
    /\ IF ret.results = <<>>
       THEN ret.value = sNoResults /\ Len(ret.calls) = 1
       ELSE /\ Len(ret.calls) = 2
            /\ ret.calls[2] = FormatPrompt(call.question, StrList(ret.results))

\* a query that parses was executed on a graph that holds nodes and matched
\* none of them
AskShortCircuitWitness ==
  /\ call.op = "ask" /\ Returned /\ ret.executed
  /\ nodes # {}
  /\ ~RunQuery(nodes, generate_cypher_query(call.question, call.resp1).value).raised
  /\ ret.results = <<>>
  /\ ret.value = sNoResults

\* C21: when the oracle call of generate_cypher_query fails, ask returns
\* without raising, its answer is the message that the question was not
\* understood, no query is given to the store, and no other oracle call is
\* made
QueryGenerationRecovered ==
  (call.op = "ask" /\ ret.status # "pending" /\ call.resp1.raises) =>
    /\ Returned
    /\ ret.value = sNotUnderstood
    /\ ~ret.executed
    /\ ret.results = <<>>
    /\ ret.calls = <<QueryPrompt(call.question)>>

\* a question about a graph that holds nodes was asked and the oracle call
\* that generates the query failed
QueryGenerationRecoveredWitness ==
  /\ call.op = "ask" /\ Returned
  /\ call.resp1.raises
  /\ nodes # {}
  /\ ret.value = sNotUnderstood

Unmarked(N) == {n \in N : "_test_marker" \notin DOMAIN n.props}

\* C23: when reingest_file has run its test-mode ingestion, the sweep of the
\* test-marked nodes leaves every node that was in the graph before, without
\* a test marker, in the graph with the attributes it had
TrialIngestionReversible ==
  [][call'.op = "reingest_file" =>
       Unmarked(nodes) \subseteq cleanup_test_entities(nodes', edges').nodes]_vars

\* the natural keys of the records of the buckets types of a merged result
RecordKeys(entities, types) ==
  UNION {LET t == BucketTypes[k]
             recs == Get(entities, t.bucket, <<>>)
         IN {recs[i][t.key] : i \in {j \in DOMAIN recs : t.key \in DOMAIN recs[j]}} :
           k \in types}

\* after an ingestion that returns, every complete relationship record whose
\* 'from' and 'to' are natural keys of records of the buckets types has an
\* edge of its type from a node named 'from' to a node named 'to'
EndpointsFound(types) ==
  (call.op = "ingest_text_content" /\ Returned) =>
    \A i \in DOMAIN ret.value.relationships :
      LET rel == ret.value.relationships[i]
          keys == RecordKeys(ret.value.entities, types)
      IN (/\ {"from", "to", "type"} \subseteq DOMAIN rel
          /\ IsSymbolicName(rel.type)
          /\ rel.from \in keys /\ rel.to \in keys)
         => \E e \in BagToSet(edges) :
              /\ e.type = rel.type
              /\ Named(nodes, e.src, rel.from)
              /\ Named(nodes, e.dst, rel.to)

\* C24: the entities of an ingestion are upserted before its relationships
\* are created, so that a relationship record whose 'from' and 'to' are
\* natural keys of entities of the merged result (of any bucket) produces an
\* edge between the two nodes
EntitiesBeforeRelationships == EndpointsFound(DOMAIN BucketTypes)

\* the node n has the type attributes of the record rec: the record's value
\* where it has one, and otherwise the default of the upsert, which is the
\* empty string or list, and for age None (the node has no age then)
HasAttrsOf(n, sch, rec) ==
  \A a \in sch.attrs :
    IF a \in DOMAIN rec THEN HasProp(n, a, rec[a])
    ELSE IF a = "age" THEN a \notin DOMAIN n.props
    ELSE HasProp(n, a, <<>>)

\* the records of a bucket that are the last of their natural key
LastOfKey(recs, key) ==
  {i \in DOMAIN recs : \A j \in DOMAIN recs : j > i => recs[j][key] # recs[i][key]}

\* C25: no operation of the pipeline, in either mode, removes a node or an
\* edge; and after an ingestion that completed, the node of each natural key
\* of the merged result, whether it existed before or not, has for every one
\* of its type attributes the value of the (last) record with that key, or
\* the default when the record lacks the attribute
ReingestionOverwrites ==
  [][/\ \A n \in nodes : \E m \in nodes' : m.id = n.id /\ NodeKey(m) = NodeKey(n)
     /\ EdgeKeys(edges) \subseteq EdgeKeys(edges')
     /\ (/\ call'.op \in {"ingest_text_content", "ingest_text_file"}
         /\ ret'.status = "returned"
         /\ ret'.value # NONE)
        => \A k \in DOMAIN EntitySchema :
             LET sch == EntitySchema[k]
                 recs == Get(ret'.value.entities, sch.bucket, <<>>)
             IN \A i \in LastOfKey(recs, sch.key) :
                  \E n \in nodes' :
                    /\ NodeKey(n) = <<sch.label, recs[i][sch.key]>>
                    /\ HasAttrsOf(n, sch, recs[i])]_vars

\* an ingestion has completed on a graph that held a Character "Al" with a
\* description, a role, an age and traits; its record of "Al" had none of
\* them, and the node now has the defaults
ReingestionOverwritesWitness ==
  /\ call.op \in {"ingest_text_content", "ingest_text_file"} /\ Returned
  /\ ret.value # NONE
  /\ "characters" \in DOMAIN ret.value.entities
  /\ \E i \in DOMAIN ret.value.entities.characters :
       ret.value.entities.characters[i] = cAlBare
  /\ \E n \in nodes :
       /\ n.id = 1 /\ NodeKey(n) = <<"Character", nAl>>
       /\ HasProp(n, "description", <<>>) /\ "age" \notin DOMAIN n.props
  /\ Cardinality(nodes) >= 3

\* the line of the listing for row i
NumberedLine(results, i) ==
  Decimal(i) \o <<". ">> \o StrRow(results[i]) \o <<"\n">>

\* C26: when the generated query gave at least one row and the second oracle
\* call fails, ask returns without raising, and its answer is the header
\* with the number of rows followed by one numbered line for each row, in
\* the order of the rows
FormattingFallback ==
  (/\ call.op = "ask" /\ ret.status # "pending"
   /\ ret.executed /\ ret.results # <<>> /\ call.resp2.raises)
  => /\ Returned
     /\ ret.value =
          <<"Found ">> \o Decimal(Len(ret.results)) \o <<" results:\n">>
            \o Flatten([i \in DOMAIN ret.results |-> NumberedLine(ret.results, i)])

\* two rows were found and the second oracle call failed
FormattingFallbackWitness ==
  /\ call.op = "ask" /\ Returned
  /\ call.resp2.raises
  /\ Len(ret.results) = 2
  /\ ret.results[1] # ret.results[2]

\* the name made of the stem of name, the suffix number k and the extension
\* of name; the name itself for k = 0
Numbered(name, k) ==
  IF k = 0 THEN name ELSE Stem(name) \o <<"_">> \o Decimal(k) \o Suffix(name)

\* the number k for which name and the names numbered 1..k are all taken in
\* dir, and the name numbered k + 1 is free
TakenUpTo(F, dir, name) ==
  CHOOSE k \in 0..Cardinality(DOMAIN F.files) :
    /\ \A i \in 0..k : Path(dir, Numbered(name, i)) \in DOMAIN F.files
    /\ Path(dir, Numbered(name, k + 1)) \notin DOMAIN F.files

\* C27: when the requested name and the names numbered 1..k are taken in the
\* target directory, move_and_organize stores the file under the requested
\* stem with the single number k + 1
IncrementingSuffix ==
  [][(/\ call'.op = "move_and_organize" /\ ret'.status = "returned"
      /\ Path(target_dir(call'.content_type), call'.new_filename) \in DOMAIN fs.files)
     => ret'.value =
          Path(target_dir(call'.content_type),
               Numbered(call'.new_filename,
                        TakenUpTo(fs, target_dir(call'.content_type),
                                  call'.new_filename) + 1))]_vars

\* C28: whichever way reingest_file is left, the pipeline's testing_mode
\* after the call is its testing_mode before the call
ModeRestored ==
  [][call'.op = "reingest_file" => testing_mode' = testing_mode]_vars

\* reingest_file was left by an exception on a pipeline in normal mode, after
\* its test-mode ingestion had marked a node
ModeRestoredWitness ==
  /\ call.op = "reingest_file" /\ ret.status = "raised"
  /\ ~testing_mode
  /\ \E n \in nodes : HasProp(n, "_test_marker", TRUE)
====
